---- MODULE Spec2Model ----
(***************************************************************************)
(* A model of the directive protocol and the dual-backend action engine    *)
(* of factif-ai: the frontend message parser and processor, the backend    *)
(* action router, the desktop (Docker/xdotool) adapter and the browser     *)
(* (Playwright) adapter.                                                   *)
(*                                                                         *)
(* Text is modelled as a sequence of tokens.  A markup tag such as         *)
(* "<perform_action>" is one token, every other token stands for one       *)
(* character (or one indivisible word) of ordinary text.                   *)
(***************************************************************************)
EXTENDS Integers, Sequences, FiniteSets, Bags, TLC

VARIABLES
  \* ---- frontend parser (messagePatterns.ts)
  given,          \* how the input text was built (history, read by the properties only)
  text,           \* the text handed to extractAction / parseMessage
  epc,            \* extractAction: "idle" | "ready" | "done"
  extracted,      \* extractAction's result: None (null) or Some(directive)
  ppc,            \* parseMessage: "idle" | "scan" | "done" | "raised"
  remainingText,  \* parseMessage's remainingText
  parts,          \* parseMessage's parts
  \* ---- frontend message processor (messageProcessor.ts)
  chunk,          \* processMessage's chunk
  fpc,            \* "idle" | "start" | "launching" | "executing" | "done" | "reparsed"
  faction,        \* the directive extracted from the chunk: None or Some(directive)
  sent,           \* the actions handed to executeAction, in order
  hasActiveAction,\* the value last given to setHasActiveAction
  response,       \* what executeAction returned for the directive: None or Some(r)
  processed,      \* processMessage's result
  reparsed,       \* parseMessage of the produced actionResult
  \* ---- backend action router (actionExecutorService.ts)
  initialized,    \* ActionExecutorService.initialized, per source
  eager,          \* the constructor's unawaited initializeDockerVNC(): "pending" | "settled"
  request,        \* the request of the executeAction call in progress: None or Some(req)
  rpc,            \* executeAction: "idle" | "initializing" | "launching" | "performing" | "done"
  calls,          \* the adapter operations invoked for this request, in order
  rresult,        \* what executeAction returned: None or Some(ActionResponse)
  initThrew,      \* an adapter initialize() raised during this request
  performThrew,   \* the adapter's performAction raised during this request
  secondCall,     \* a second executeAction call in progress: None or Some([request, awaiting])
  \* ---- desktop adapter (DockerActions.ts)
  urlCache,       \* DockerActions.urlCache, per container: None or Some([url, timestamp])
  clock,          \* Date.now(), in ms
  dpc,            \* position of the adapter call in progress, "idle" when none
  dcall,          \* the locals of the call in progress
  commands,       \* the shell commands, delays and screenshots of this call, in order
  dresult,        \* what the call returned
  apc,            \* performAction: "idle" | "check" | "dispatch" | "primitive" | "done"
  paction,        \* performAction's arguments: None or Some([containerId, action, params])
  checks,         \* the commands performAction itself ran before the switch, with their output
  emitted,        \* the socket events broadcast during this performAction call, in order
  presult,        \* what performAction returned
  pending,        \* a second adapter call in progress: None or Some([op, containerId, now, next, inflight])
  \* ---- browser adapter (PuppeteerActions.ts)
  loadingMonitorInterval, \* the static field: None or Some(timer)
  isMonitoringLoading,    \* the static field
  armed,          \* the interval timers that are set and not cleared
  timers,         \* the number of timers created so far
  ticks,          \* the bag of timers whose callbacks are waiting for page.evaluate
  lastHoverPosition, \* PuppeteerActions.lastHoverPosition
  bpc,            \* position of the adapter call in progress, "idle" when none
  bcall,          \* the locals of the call in progress
  events,         \* page interactions, notifications and screenshots of this call, in order
  bresult         \* what the call returned

parserVars == <<given, text, epc, extracted, ppc, remainingText, parts>>
frontendVars == <<chunk, fpc, faction, sent, hasActiveAction, response, processed, reparsed>>

routerCallVars == <<initialized, eager, request, rpc, calls, rresult, initThrew, performThrew>>
routerVars == <<routerCallVars, secondCall>>
performVars == <<apc, paction, checks, emitted, presult>>
dockerCallVars == <<urlCache, clock, dpc, dcall, commands, dresult, performVars>>
dockerVars == <<dockerCallVars, pending>>
browserVars ==
  <<loadingMonitorInterval, isMonitoringLoading, armed, timers, ticks, bpc, bcall, events, bresult,
    lastHoverPosition>>
backendVars == <<routerVars, dockerVars, browserVars>>

vars == <<parserVars, frontendVars, backendVars>>

----------------------------------------------------------------------------
(* Generic helpers *)

None == <<>>
Some(v) == <<v>>

Min(S) == CHOOSE x \in S : \A y \in S : x <= y
Max(S) == CHOOSE x \in S : \A y \in S : x >= y

\* JavaScript's whitespace, as far as the token alphabet has it
IsSpace(t) == t \in {" ", "\n"}

\* String.prototype.indexOf(tok, from), 1-based; 0 stands for -1
IndexFrom(s, tok, from) ==
  LET hits == {i \in from..Len(s) : s[i] = tok}
  IN IF hits = {} THEN 0 ELSE Min(hits)

\* String.prototype.slice(a, b) on 1-based inclusive positions
Slice(s, a, b) == IF a > b THEN <<>> ELSE SubSeq(s, a, b)

\* String.prototype.trim()
Trim(s) ==
  LET ns == {i \in 1..Len(s) : ~IsSpace(s[i])}
  IN IF ns = {} THEN <<>> ELSE SubSeq(s, Min(ns), Max(ns))

\* A JavaScript string is truthy when it is not empty
Truthy(opt) == opt # None /\ opt[1] # <<>>

----------------------------------------------------------------------------
(* The state of a component that a specification leaves alone *)

FrontendIdle ==
  /\ chunk = <<>>
  /\ fpc = "idle"
  /\ faction = None
  /\ sent = <<>>
  /\ hasActiveAction = FALSE
  /\ response = None
  /\ processed = None
  /\ reparsed = None

ParserIdle ==
  /\ given = None
  /\ text = <<>>
  /\ epc = "idle"
  /\ extracted = None
  /\ ppc = "idle"
  /\ remainingText = <<>>
  /\ parts = <<>>

Sources == {"chrome-puppeteer", "ubuntu-docker-vnc"}
Containers == {"c1", "c2"}

RouterIdle ==
  /\ initialized = [s \in Sources |-> FALSE]
  /\ eager = "settled"
  /\ request = None
  /\ rpc = "idle"
  /\ calls = <<>>
  /\ rresult = None
  /\ initThrew = FALSE
  /\ performThrew = FALSE
  /\ secondCall = None

DockerIdle ==
  /\ urlCache = [c \in Containers |-> None]
  /\ clock = 0
  /\ dpc = "idle"
  /\ dcall = None
  /\ commands = <<>>
  /\ dresult = None
  /\ apc = "idle"
  /\ paction = None
  /\ checks = <<>>
  /\ emitted = <<>>
  /\ presult = None
  /\ pending = None

BrowserIdle ==
  /\ loadingMonitorInterval = None
  /\ isMonitoringLoading = FALSE
  /\ armed = {}
  /\ timers = 0
  /\ ticks = EmptyBag
  /\ bpc = "idle"
  /\ bcall = None
  /\ events = <<>>
  /\ bresult = None
  /\ lastHoverPosition = None

BackendIdle == RouterIdle /\ DockerIdle /\ BrowserIdle

----------------------------------------------------------------------------
(* messagePatterns.ts: the perform_action sub-field patterns *)

\* /<open>([\s\S]*?)<\/close>/s : the first opening tag and the first closing
\* tag after it; None when the pattern does not match, else Some(capture)
TagPattern(s, open, close) ==
  LET i == IndexFrom(s, open, 1)
      j == IF i = 0 THEN 0 ELSE IndexFrom(s, close, i + 1)
  IN IF i = 0 \/ j = 0 THEN None ELSE Some(Slice(s, i + 1, j - 1))

\* match?.[1]?.trim()
TrimmedCapture(m) == IF m = None THEN None ELSE Some(Trim(m[1]))

\* ...(value && { value })
Carried(v) == IF Truthy(v) THEN v ELSE None

\* A plausible slip: a greedy body, which runs to the last closing tag
performActionPattern_greedy(s) ==
  LET i == IndexFrom(s, "<perform_action>", 1)
      closers == {k \in 1..Len(s) : k > i /\ s[k] = "</perform_action>"}
  IN IF i = 0 \/ closers = {} THEN None ELSE Some(Slice(s, i, Max(closers)))

\* /<perform_action>[\s\S]*?<\/perform_action>/s : the matched span, or None
performActionPattern(s) ==
  LET i == IndexFrom(s, "<perform_action>", 1)
      j == IF i = 0 THEN 0 ELSE IndexFrom(s, "</perform_action>", i + 1)
  IN IF i = 0 \/ j = 0 THEN None ELSE Some(Slice(s, i, j))

\* The directive built from a matched span by extractAction and by
\* performActionMatch: None when <action> is missing or blank
Directive(fullText) ==
  LET action == TrimmedCapture(TagPattern(fullText, "<action>", "</action>"))
      url == TrimmedCapture(TagPattern(fullText, "<url>", "</url>"))
      coordinate == TrimmedCapture(TagPattern(fullText, "<coordinate>", "</coordinate>"))
      txt == TrimmedCapture(TagPattern(fullText, "<text>", "</text>"))
      key == TrimmedCapture(TagPattern(fullText, "<key>", "</key>"))
      about == TrimmedCapture(TagPattern(fullText, "<about_this_action>", "</about_this_action>"))
      marker == TrimmedCapture(TagPattern(fullText, "<marker_number>", "</marker_number>"))
  IN IF ~Truthy(action) THEN None
     ELSE Some([type |-> "perform_action",
                action |-> action[1],
                url |-> Carried(url),
                coordinate |-> Carried(coordinate),
                text |-> Carried(txt),
                key |-> Carried(key),
                aboutThisAction |-> Carried(about),
                markerNumber |-> Carried(marker)])

\* A plausible slip: a coordinate pattern that stops at the comma
CutAtComma(opt) ==
  IF opt = None THEN None
  ELSE LET c == IndexFrom(opt[1], ",", 1)
       IN IF c = 0 THEN opt ELSE Some(Slice(opt[1], 1, c - 1))

extractAction_commaLost(t) ==
  LET fullMatch == performActionPattern(t)
      d == IF fullMatch = None THEN None ELSE Directive(fullMatch[1])
  IN IF d = None THEN None
     ELSE Some([d[1] EXCEPT !.coordinate = CutAtComma(@)])

\* MessagePatterns.extractAction
extractAction(t) ==
  LET fullMatch == performActionPattern(t)
  IN IF fullMatch = None THEN None ELSE Directive(fullMatch[1])

----------------------------------------------------------------------------
(* A backtracking matcher for the regular expressions of messagePatterns.ts. *)
(* A pattern is a sequence of items.  A literal item [kind |-> "lit", toks,  *)
(* gap] matches one token of toks after a gap: "any" is [\s\S]*? (or .*?     *)
(* under the s flag), "line" is .*? without the s flag (no line break),      *)
(* "space" is [\s\n]*, "none" is no gap.  An item [kind |-> "opt", items] is *)
(* a greedy optional group (?: ... )?.  The result is None, or Some of the   *)
(* positions of the literal items in order (0 for those of a skipped group): *)
(* the match a backtracking engine finds first, lazy gaps shortest first.    *)

Lit(tok, gap) == [kind |-> "lit", toks |-> {tok}, gap |-> gap]
OneOf(toks, gap) == [kind |-> "lit", toks |-> toks, gap |-> gap]
Opt(items) == [kind |-> "opt", items |-> items]

GapOk(s, from, to, gap) ==
  CASE gap = "any" -> TRUE
    [] gap = "line" -> \A i \in from..to : s[i] # "\n"
    [] gap = "space" -> \A i \in from..to : IsSpace(s[i])
    [] gap = "none" -> to < from

RECURSIVE LiteralCount(_)
LiteralCount(items) ==
  IF items = <<>> THEN 0
  ELSE (IF Head(items).kind = "opt" THEN LiteralCount(Head(items).items) ELSE 1)
         + LiteralCount(Tail(items))

RECURSIVE Match(_, _, _)
Match(s, pos, items) ==
  IF items = <<>> THEN Some(<<>>)
  ELSE LET it == Head(items) IN
    IF it.kind = "opt"
      THEN LET taken == Match(s, pos, it.items \o Tail(items))
           IN IF taken # None THEN taken
              ELSE LET skipped == Match(s, pos, Tail(items))
                   IN IF skipped = None THEN None
                      ELSE Some([i \in 1..LiteralCount(it.items) |-> 0] \o skipped[1])
      ELSE LET cands == {p \in pos..Len(s) :
                           /\ s[p] \in it.toks
                           /\ GapOk(s, pos, p - 1, it.gap)
                           /\ Match(s, p + 1, Tail(items)) # None}
           IN IF cands = {} THEN None
              ELSE LET p == Min(cands)
                   IN Some(<<p>> \o Match(s, p + 1, Tail(items))[1])

----------------------------------------------------------------------------
(* JSON.stringify / JSON.parse on the values the model uses: an array of    *)
(* strings (the element labels of an OmniParser result), a string, or a     *)
(* number.  A string is a sequence of character tokens.                     *)

Digits == {"0", "1", "2", "3", "4", "5", "6", "7", "8", "9"}

EscapeChar(c) ==
  CASE c = "\"" -> <<"\\", "\"">>
    [] c = "\\" -> <<"\\", "\\">>
    [] c = "\n" -> <<"\\", "n">>
    [] OTHER -> <<c>>

RECURSIVE EscapeString(_)
EscapeString(str) ==
  IF str = <<>> THEN <<>> ELSE EscapeChar(Head(str)) \o EscapeString(Tail(str))

QuoteString(str) == <<"\"">> \o EscapeString(str) \o <<"\"">>

RECURSIVE JoinQuoted(_)
JoinQuoted(arr) ==
  IF arr = <<>> THEN <<>>
  ELSE IF Len(arr) = 1 THEN QuoteString(arr[1])
  ELSE QuoteString(arr[1]) \o <<",">> \o JoinQuoted(Tail(arr))

\* JSON.stringify of an array of strings
JSONStringify(arr) == <<"[">> \o JoinQuoted(arr) \o <<"]">>

Failed == [ok |-> FALSE]

SkipSpace(t, i) ==
  LET ns == {j \in i..Len(t) : ~IsSpace(t[j])}
  IN IF ns = {} THEN Len(t) + 1 ELSE Min(ns)

\* The string literal whose opening quote is at i: its value and the
\* position after its closing quote
RECURSIVE StringBody(_, _, _)
StringBody(t, i, acc) ==
  IF i > Len(t) THEN Failed
  ELSE IF t[i] = "\"" THEN [ok |-> TRUE, value |-> acc, next |-> i + 1]
  ELSE IF t[i] = "\n" THEN Failed
  ELSE IF t[i] = "\\"
    THEN IF i + 1 > Len(t) THEN Failed
         ELSE IF t[i + 1] \in {"\"", "\\"} THEN StringBody(t, i + 2, Append(acc, t[i + 1]))
         ELSE IF t[i + 1] = "n" THEN StringBody(t, i + 2, Append(acc, "\n"))
         ELSE Failed
  ELSE StringBody(t, i + 1, Append(acc, t[i]))

\* The elements of an array after its "[" or after a ","
RECURSIVE ArrayElements(_, _, _)
ArrayElements(t, i, acc) ==
  LET j == SkipSpace(t, i)
  IN IF j > Len(t) \/ t[j] # "\"" THEN Failed
     ELSE LET str == StringBody(t, j + 1, <<>>)
          IN IF ~str.ok THEN Failed
             ELSE LET k == SkipSpace(t, str.next)
                  IN IF k > Len(t) THEN Failed
                     ELSE IF t[k] = "]"
                       THEN [ok |-> TRUE, value |-> Append(acc, str.value), next |-> k + 1]
                     ELSE IF t[k] = ","
                       THEN ArrayElements(t, k + 1, Append(acc, str.value))
                     ELSE Failed

JSONValue(t, i) ==
  IF i > Len(t) THEN Failed
  ELSE IF t[i] = "[" THEN
    LET j == SkipSpace(t, i + 1)
    IN IF j <= Len(t) /\ t[j] = "]"
         THEN [ok |-> TRUE, value |-> <<>>, next |-> j + 1]
         ELSE ArrayElements(t, i + 1, <<>>)
  ELSE IF t[i] = "\"" THEN StringBody(t, i + 1, <<>>)
  ELSE IF t[i] \in Digits \ {"0"} /\ (\A j \in i..Len(t) : t[j] \in Digits)
    THEN [ok |-> TRUE, value |-> <<"number", SubSeq(t, i, Len(t))>>, next |-> Len(t) + 1]
  ELSE Failed

\* JSON.parse: [ok |-> TRUE, value |-> v], or [ok |-> FALSE] for a SyntaxError
JSONParse(t) ==
  LET v == JSONValue(t, SkipSpace(t, 1))
  IN IF v.ok /\ SkipSpace(t, v.next) > Len(t)
       THEN [ok |-> TRUE, value |-> v.value]
       ELSE Failed

----------------------------------------------------------------------------
(* messagePatterns.ts: the per-tag processors.  Each returns                *)
(* [kind |-> "null"], [kind |-> "part", part |-> p] or, when it throws,     *)
(* [kind |-> "throw"].                                                      *)

Null == [kind |-> "null"]
Part(p) == [kind |-> "part", part |-> p]
Throw == [kind |-> "throw"]

TextPart(content) == [type |-> "text", content |-> content]

\* A plausible slip: a span without an action kept as a text part
performActionMatch_keptAsText(fullMatch) ==
  IF performActionPattern(fullMatch) = None THEN Null
  ELSE LET d == Directive(fullMatch)
       IN IF d = None THEN Part(TextPart(fullMatch)) ELSE Part(d[1])

\* MessagePatterns.performActionMatch
performActionMatch(fullMatch) ==
  IF performActionPattern(fullMatch) = None THEN Null
  ELSE LET d == Directive(fullMatch)
       IN IF d = None THEN Null ELSE Part(d[1])

\* patterns.actionResult
actionResultPattern ==
  << Lit("<perform_action_result>", "any"),
     Lit("<action_status>", "any"),
     OneOf({"success", "error"}, "none"),
     Lit("</action_status>", "none"),
     Lit("<action_message>", "any"),
     Lit("</action_message>", "any"),
     Opt(<<Lit("<screenshot>", "any"), Lit("</screenshot>", "any")>>),
     Opt(<<Lit("<omni_parser>", "any"), Lit("</omni_parser>", "any")>>),
     Lit("</perform_action_result>", "any") >>

Capture(s, m, a, b) == IF m[a] = 0 THEN None ELSE Some(Slice(s, m[a] + 1, m[b] - 1))

\* A plausible slip: the optional children dropped from the parsed result
performActionResultMatch_noOptionals(fullMatch) ==
  LET rm == Match(fullMatch, 1, actionResultPattern)
  IN IF rm = None THEN Null
     ELSE Part([type |-> "action_result",
                status |-> fullMatch[rm[1][3]],
                message |-> Slice(fullMatch, rm[1][5] + 1, rm[1][6] - 1),
                screenshot |-> None,
                omniParserResult |-> None])

\* MessagePatterns.performActionResultMatch
performActionResultMatch(fullMatch) ==
  LET rm == Match(fullMatch, 1, actionResultPattern)
  IN IF rm = None THEN Null
     ELSE LET m == rm[1]
              shot == Capture(fullMatch, m, 7, 8)
              omni == Capture(fullMatch, m, 9, 10)
              json == IF Truthy(omni) THEN JSONParse(omni[1]) ELSE Failed
          IN IF Truthy(omni) /\ ~json.ok THEN Throw
             ELSE Part([type |-> "action_result",
                        status |-> fullMatch[m[3]],
                        message |-> Slice(fullMatch, m[5] + 1, m[6] - 1),
                        screenshot |-> Carried(shot),
                        omniParserResult |->
                          IF Truthy(omni) THEN Some(json.value) ELSE None])

\* patterns.completeTask
completeTaskPattern ==
  << Lit("<complete_task>", "any"),
     Lit("<result>", "space"),
     Lit("</result>", "any"),
     Opt(<<Lit("<command>", "space"), Lit("</command>", "any")>>),
     Lit("</complete_task>", "space") >>

\* MessagePatterns.processCompleteTaskMatch
processCompleteTaskMatch(fullMatch) ==
  LET rm == Match(fullMatch, 1, completeTaskPattern)
  IN IF rm = None THEN Null
     ELSE LET result == Capture(fullMatch, rm[1], 2, 3)
              command == Capture(fullMatch, rm[1], 4, 5)
          IN IF ~Truthy(result) THEN Null
             ELSE Part([type |-> "complete_task",
                        result |-> result[1],
                        command |-> Carried(command)])

\* patterns.followupQuestion: the capture is what lies between the greedy
\* whitespace runs after <question> and before </question>
followupQuestionPattern ==
  << Lit("<ask_followup_question>", "any"),
     Lit("<question>", "space"),
     Lit("</question>", "any"),
     Lit("</ask_followup_question>", "space") >>

\* MessagePatterns.processFollowupQuestion
processFollowupQuestion(fullMatch) ==
  LET rm == Match(fullMatch, 1, followupQuestionPattern)
  IN IF rm = None THEN Null
     ELSE LET question == Trim(Slice(fullMatch, rm[1][2] + 1, rm[1][3] - 1))
          IN IF question = <<>> THEN Null
             ELSE Part([type |-> "followup_question", question |-> question])

\* the clickable_element pattern of processExploreOutput (g flag, no s flag)
clickableElementPattern ==
  << Lit("<clickable_element>", "any"),
     Lit("<text>", "any"),
     Lit("</text>", "line"),
     Lit("<coordinates>", "any"),
     Lit("</coordinates>", "line"),
     Lit("<about_this_element>", "any"),
     Lit("</about_this_element>", "line"),
     Lit("</clickable_element>", "any") >>

RECURSIVE ClickableElements(_, _)
ClickableElements(s, pos) ==
  LET rm == Match(s, pos, clickableElementPattern)
  IN IF rm = None THEN <<>>
     ELSE LET m == rm[1]
          IN << [text |-> Trim(Slice(s, m[2] + 1, m[3] - 1)),
                 coordinates |-> Trim(Slice(s, m[4] + 1, m[5] - 1)),
                 aboutThisElement |-> Trim(Slice(s, m[6] + 1, m[7] - 1))] >>
               \o ClickableElements(s, m[8] + 1)

\* MessagePatterns.processExploreOutput
processExploreOutput(inputString) ==
  Part([type |-> "explore_output",
        clickableElements |-> ClickableElements(inputString, 1)])

----------------------------------------------------------------------------
(* MessagePatterns.parseMessage: the scanning loop *)

tagPairs ==
  << [open |-> "<ask_followup_question>", close |-> "</ask_followup_question>"],
     [open |-> "<complete_task>", close |-> "</complete_task>"],
     [open |-> "<perform_action>", close |-> "</perform_action>"],
     [open |-> "<perform_action_result>", close |-> "</perform_action_result>"],
     [open |-> "<explore_output>", close |-> "</explore_output>"] >>

Processor(k, fullTag) ==
  CASE k = 1 -> processFollowupQuestion(fullTag)
    [] k = 2 -> processCompleteTaskMatch(fullTag)
    [] k = 3 -> performActionMatch(fullTag)
    [] k = 4 -> performActionResultMatch(fullTag)
    [] k = 5 -> processExploreOutput(fullTag)

\* the tag pairs whose opening tag occurs in the remaining text
TagStarts(rem) == {k \in DOMAIN tagPairs : IndexFrom(rem, tagPairs[k].open, 1) # 0}

\* a scan that picks the last opening tag instead of the earliest
EarliestTag_latest(rem) ==
  CHOOSE k \in TagStarts(rem) :
    \A j \in TagStarts(rem) :
      IndexFrom(rem, tagPairs[k].open, 1) >= IndexFrom(rem, tagPairs[j].open, 1)

\* tagStarts.reduce((min, curr) => curr.index < min.index ? curr : min)
EarliestTag(rem) ==
  CHOOSE k \in TagStarts(rem) :
    \A j \in TagStarts(rem) :
      IndexFrom(rem, tagPairs[k].open, 1) <= IndexFrom(rem, tagPairs[j].open, 1)

OpenIndex(rem) == IndexFrom(rem, tagPairs[EarliestTag(rem)].open, 1)

\* remainingText.indexOf(close, index + open.length)
CloseIndex(rem) == IndexFrom(rem, tagPairs[EarliestTag(rem)].close, OpenIndex(rem) + 1)

\* A plausible slip: the remainder still begins with the opening tag
AfterOpen_fromTag(rem) == Slice(rem, OpenIndex(rem), Len(rem))

\* lines 114-116: remainingText.slice(index + open.length)
AfterOpen(rem) == Slice(rem, OpenIndex(rem) + 1, Len(rem))

\* parts after the text before the tag has been added
WithPreText(rem, ps) ==
  LET preText == Trim(Slice(rem, 1, OpenIndex(rem) - 1))
  IN IF preText # <<>> THEN Append(ps, TextPart(preText)) ELSE ps

\* One pass of the while loop, from its test to its end: the loop's next
\* position ("scan": test again, "done": parts returned, "raised": an
\* exception left parseMessage) with the new remainingText and parts
parseStep(rem, ps) ==
  IF rem = <<>> THEN [pc |-> "done", remainingText |-> rem, parts |-> ps]
  ELSE IF TagStarts(rem) = {} THEN
    [pc |-> "done", remainingText |-> rem,
     parts |-> IF Trim(rem) # <<>> THEN Append(ps, TextPart(Trim(rem))) ELSE ps]
  ELSE IF CloseIndex(rem) = 0 THEN
    [pc |-> "scan",
     remainingText |-> AfterOpen(rem),
     parts |-> Append(WithPreText(rem, ps), TextPart(<<rem[OpenIndex(rem)]>>))]
  ELSE LET processedMatch ==
             Processor(EarliestTag(rem), Slice(rem, OpenIndex(rem), CloseIndex(rem)))
       IN IF processedMatch.kind = "throw" THEN
            [pc |-> "raised", remainingText |-> rem, parts |-> WithPreText(rem, ps)]
          ELSE
            [pc |-> "scan",
             remainingText |-> Slice(rem, CloseIndex(rem) + 1, Len(rem)),
             parts |-> IF processedMatch.kind = "part"
                         THEN Append(WithPreText(rem, ps), processedMatch.part)
                         ELSE WithPreText(rem, ps)]

RECURSIVE parseLoop(_, _)
parseLoop(rem, ps) ==
  LET r == parseStep(rem, ps)
  IN IF r.pc = "scan" THEN parseLoop(r.remainingText, r.parts) ELSE r

\* MessagePatterns.parseMessage: [pc |-> "done", parts |-> ...] or
\* [pc |-> "raised", ...]
parseMessage(t) == parseLoop(t, <<>>)

----------------------------------------------------------------------------
(* Inputs of extractAction: one well-formed perform_action block, with text  *)
(* around it                                                                *)

MaxPad == 1

Spaces(k) == [i \in 1..k |-> IF i % 2 = 1 THEN " " ELSE "\n"]
Pad(c, k) == Spaces(k) \o c \o Spaces(k)
Padded(c) == {Pad(c, k) : k \in 0..MaxPad}

Element(open, opt, close) ==
  IF opt = None THEN <<>> ELSE <<open>> \o opt[1] \o <<close>>

\* The markup of a block whose sub-fields have the given contents, the
\* children separated by line breaks as the model prompt writes them
RenderBlock(b) ==
  <<"<perform_action>", "\n">>
    \o Element("<action>", Some(b.action), "</action>") \o <<"\n">>
    \o Element("<url>", b.url, "</url>")
    \o Element("<coordinate>", b.coordinate, "</coordinate>")
    \o Element("<text>", b.text, "</text>")
    \o Element("<key>", b.key, "</key>")
    \o Element("<about_this_action>", b.aboutThisAction, "</about_this_action>")
    \o Element("<marker_number>", b.markerNumber, "</marker_number>")
    \o <<"\n", "</perform_action>">>

Blocks ==
  [action : Padded(<<"click">>) \cup Padded(<<>>),
   url : {None, Some(<<"u">>)},
   coordinate : {None} \cup {Some(c) : c \in Padded(<<"4", ",", "3">>)},
   text : {None, Some(<<>>), Some(<<"a", ",", " ", "b">>)},
   key : {None, Some(<<"k">>)},
   aboutThisAction : {None, Some(<<"w">>)},
   markerNumber : {None, Some(<<"7">>)}]

Around == {<<>>, <<"a", "\n">>, <<"<action>", "x", "</action>">>, <<"<coordinate>", "9", "</coordinate>">>}

InitExtract ==
  /\ given \in [pre : Around, block : Blocks, post : Around]
  /\ text = given.pre \o RenderBlock(given.block) \o given.post
  /\ epc = "ready"
  /\ extracted = None
  /\ ppc = "idle"
  /\ remainingText = <<>>
  /\ parts = <<>>
  /\ FrontendIdle
  /\ BackendIdle

ExtractAction ==
  /\ epc = "ready"
  /\ extracted' = extractAction(text)
  /\ epc' = "done"
  /\ UNCHANGED <<given, text, ppc, remainingText, parts>>
  /\ UNCHANGED <<frontendVars, backendVars>>

NextExtract == ExtractAction

SpecExtract == InitExtract /\ [][NextExtract]_vars

OptionalFields == {"url", "coordinate", "text", "key", "aboutThisAction", "markerNumber"}

\* C1 (as stated): for every text with exactly one well-formed perform_action
\* block, extractAction returns a directive whose action is the content of
\* the <action> tag verbatim and which carries every optional field present
\* in the block with its content unchanged.
C1_Verbatim ==
  epc = "done" =>
    /\ extracted # None
    /\ extracted[1].action = given.block.action
    /\ \A f \in OptionalFields : extracted[1][f] = given.block[f]

\* C1 (amended): the directive's action is the content of the <action> tag
\* with leading and trailing whitespace trimmed; each optional field is
\* carried with its trimmed content (inner characters such as the comma of a
\* coordinate kept) exactly when that trimmed content is not empty; and no
\* directive is returned when the trimmed action is empty.
C1_Trimmed ==
  epc = "done" =>
    IF Trim(given.block.action) = <<>>
      THEN extracted = None
      ELSE /\ extracted # None
           /\ extracted[1].action = Trim(given.block.action)
           /\ \A f \in OptionalFields :
                extracted[1][f] =
                  IF given.block[f] # None /\ Trim(given.block[f][1]) # <<>>
                    THEN Some(Trim(given.block[f][1]))
                    ELSE None

C1_Witness ==
  /\ epc = "done"
  /\ extracted # None
  /\ given.block.action # Trim(given.block.action)
  /\ given.block.coordinate # None
  /\ extracted[1].coordinate = Some(<<"4", ",", "3">>)
  /\ given.block.text = Some(<<>>)

----------------------------------------------------------------------------
(* Inputs of extractAction with several perform_action blocks: a first      *)
(* block, and up to MaxLater blocks after it                                *)

MaxLater == 2

LaterBlocks ==
  {[action |-> <<"type">>, url |-> Some(<<"v">>), coordinate |-> Some(<<"1", ",", "2">>),
    text |-> Some(<<"z">>), key |-> Some(<<"j">>), aboutThisAction |-> Some(<<"q">>),
    markerNumber |-> Some(<<"8">>)],
   [action |-> <<"launch">>, url |-> Some(<<"v">>), coordinate |-> None,
    text |-> None, key |-> None, aboutThisAction |-> None, markerNumber |-> None],
   [action |-> <<>>, url |-> None, coordinate |-> None,
    text |-> Some(<<"z">>), key |-> None, aboutThisAction |-> None, markerNumber |-> None]}

LaterRuns == UNION {[1..n -> LaterBlocks] : n \in 1..MaxLater}

RECURSIVE RenderBlocks(_, _)
RenderBlocks(bs, between) ==
  IF bs = <<>> THEN <<>>
  ELSE between \o RenderBlock(Head(bs)) \o RenderBlocks(Tail(bs), between)

InitExtractFirst ==
  /\ given \in [pre : {<<>>, <<"a", "\n">>}, block : Blocks, between : Around, later : LaterRuns]
  /\ text = given.pre \o RenderBlock(given.block) \o RenderBlocks(given.later, given.between)
  /\ epc = "ready"
  /\ extracted = None
  /\ ppc = "idle"
  /\ remainingText = <<>>
  /\ parts = <<>>
  /\ FrontendIdle
  /\ BackendIdle

SpecExtractFirst == InitExtractFirst /\ [][NextExtract]_vars

\* what a block on its own stands for: its trimmed action and its non-blank
\* trimmed optional fields, and nothing when the trimmed action is empty
Standalone(b) ==
  IF Trim(b.action) = <<>> THEN None
  ELSE Some([type |-> "perform_action",
             action |-> Trim(b.action),
             url |-> IF b.url # None /\ Trim(b.url[1]) # <<>> THEN Some(Trim(b.url[1])) ELSE None,
             coordinate |-> IF b.coordinate # None /\ Trim(b.coordinate[1]) # <<>>
                              THEN Some(Trim(b.coordinate[1])) ELSE None,
             text |-> IF b.text # None /\ Trim(b.text[1]) # <<>> THEN Some(Trim(b.text[1])) ELSE None,
             key |-> IF b.key # None /\ Trim(b.key[1]) # <<>> THEN Some(Trim(b.key[1])) ELSE None,
             aboutThisAction |-> IF b.aboutThisAction # None /\ Trim(b.aboutThisAction[1]) # <<>>
                                   THEN Some(Trim(b.aboutThisAction[1])) ELSE None,
             markerNumber |-> IF b.markerNumber # None /\ Trim(b.markerNumber[1]) # <<>>
                                THEN Some(Trim(b.markerNumber[1])) ELSE None])

\* C13: extractAction interprets at most one action-bearing block per call:
\* its result is what the first <perform_action> block of the text stands
\* for on its own, whatever <perform_action> blocks follow it in the text.
C13_FirstBlockAlone ==
  epc = "done" => extracted = Standalone(given.block)

C13_Witness ==
  /\ epc = "done"
  /\ Len(given.later) = MaxLater
  /\ given.later[1].action = <<"type">>
  /\ given.block.url = None
  /\ given.block.key = None
  /\ extracted # None
  /\ extracted[1].action = <<"click">>
  /\ extracted[1].url = None
  /\ extracted[1].key = None

----------------------------------------------------------------------------
(* Inputs of parseMessage: up to MaxSegs segments, each plain text, a lone  *)
(* opening tag or a whole block                                             *)

MaxSegs == 2

ActionBlock ==
  <<"<perform_action>", "\n", "<action>", "click", "</action>", "\n",
    "<coordinate>", "4", ",", "3", "</coordinate>", "\n", "</perform_action>">>
ActionlessBlock ==
  <<"<perform_action>", "<url>", "u", "</url>", "</perform_action>">>
BlankActionBlock ==
  <<"<perform_action>", "\n", "<action>", " ", "\n", "</action>", "\n", "</perform_action>">>
ResultBlock ==
  <<"<perform_action_result>", "\n", "<action_status>", "success", "</action_status>", "\n",
    "<action_message>", "o", "k", "</action_message>", "\n",
    "<omni_parser>", "[", "\"", "a", "\"", "]", "</omni_parser>", "\n",
    "</perform_action_result>">>
\* a result whose omni_parser child is not JSON
BadJsonResultBlock ==
  <<"<perform_action_result>", "<action_status>", "error", "</action_status>",
    "<action_message>", "o", "</action_message>",
    "<omni_parser>", "[", "\"", "a", "</omni_parser>", "</perform_action_result>">>
QuestionBlock ==
  <<"<ask_followup_question>", "\n", "<question>", " ", "q", "\n", "</question>", "\n",
    "</ask_followup_question>">>
TaskBlock ==
  <<"<complete_task>", "\n", "<result>", "r", "</result>", "\n",
    "<command>", "c", "</command>", "\n", "</complete_task>">>
ExploreBlock ==
  <<"<explore_output>", "<clickable_element>", "<text>", "t", "</text>",
    "<coordinates>", "1", ",", "2", "</coordinates>",
    "<about_this_element>", "e", "</about_this_element>", "</clickable_element>",
    "</explore_output>">>

\* the part each well-formed block must yield
BlockPart(seg) ==
  CASE seg = ActionBlock ->
         [type |-> "perform_action", action |-> <<"click">>, url |-> None,
          coordinate |-> Some(<<"4", ",", "3">>), text |-> None, key |-> None,
          aboutThisAction |-> None, markerNumber |-> None]
    [] seg = ResultBlock ->
         [type |-> "action_result", status |-> "success", message |-> <<"o", "k">>,
          screenshot |-> None, omniParserResult |-> Some(<< <<"a">> >>)]
    [] seg = QuestionBlock -> [type |-> "followup_question", question |-> <<"q">>]
    [] seg = TaskBlock ->
         [type |-> "complete_task", result |-> <<"r">>, command |-> Some(<<"c">>)]
    [] seg = ExploreBlock ->
         [type |-> "explore_output",
          clickableElements |-> << [text |-> <<"t">>, coordinates |-> <<"1", ",", "2">>,
                                    aboutThisElement |-> <<"e">>] >>]

WellFormedBlocks == {ActionBlock, ResultBlock, QuestionBlock, TaskBlock, ExploreBlock}

LoneTags == {<<"<perform_action>">>, <<"<complete_task>">>, <<"<perform_action_result>">>}

Segments ==
  {<<"a">>, <<"\n">>} \cup LoneTags \cup WellFormedBlocks
    \cup {ActionlessBlock, BlankActionBlock, BadJsonResultBlock}

RECURSIVE Flatten(_)
Flatten(segs) == IF segs = <<>> THEN <<>> ELSE Head(segs) \o Flatten(Tail(segs))

InitParse ==
  /\ given \in UNION {[1..n -> Segments] : n \in 1..MaxSegs}
  /\ text = Flatten(given)
  /\ epc = "idle"
  /\ extracted = None
  /\ ppc = "scan"
  /\ remainingText = text
  /\ parts = <<>>
  /\ FrontendIdle
  /\ BackendIdle

\* One pass through the body of the while loop of lines 68-139, or its exit:
\* the loop ends on an empty remainder (return parts) and when no opening tag
\* is left (the rest is text); an opening tag with no closing tag becomes
\* text and the scan goes on after it; a matched span goes to its processor,
\* whose exception leaves parseMessage
ParseIteration ==
  /\ ppc = "scan"
  /\ LET r == parseStep(remainingText, parts)
     IN /\ ppc' = r.pc
        /\ remainingText' = r.remainingText
        /\ parts' = r.parts
  /\ UNCHANGED <<given, text, epc, extracted>>
  /\ UNCHANGED <<frontendVars, backendVars>>

NextParse == ParseIteration

SpecParse == InitParse /\ [][NextParse]_vars

Range(f) == {f[i] : i \in DOMAIN f}

\* the start of segment k in the text
SegStart(k) == Len(Flatten(SubSeq(given, 1, k - 1))) + 1

\* the segments that are an opening tag with no matching closing tag after it
UnterminatedSegs ==
  {k \in DOMAIN given :
     /\ given[k] \in LoneTags
     /\ \A p \in DOMAIN tagPairs :
          tagPairs[p].open = given[k][1]
            => IndexFrom(text, tagPairs[p].close, SegStart(k) + 1) = 0}

\* C2: for every text with an opening tag that has no matching closing tag
\* after it, parseMessage never raises, emits that opening tag as a literal
\* text part, and goes on parsing after it, so that every later well-formed
\* block still yields its part.
C2_UnterminatedTagIsLiteral ==
  (ppc \in {"done", "raised"} /\ UnterminatedSegs # {}) =>
    /\ ppc = "done"
    /\ \A k \in UnterminatedSegs :
         /\ TextPart(given[k]) \in Range(parts)
         /\ \A j \in DOMAIN given :
              (j > k /\ given[j] \in WellFormedBlocks) => BlockPart(given[j]) \in Range(parts)

\* The while loop is synchronous code: once parseMessage is called, its
\* iterations follow one another until the loop is left
SpecParseFair ==
  SpecParse /\ ([]<>(ppc # "scan") \/ []<><<ParseIteration>>_vars)

\* C23: parseMessage terminates on every input text: each iteration of its
\* scanning loop either stops or strictly shortens the remaining text,
\* including when an opening tag has no closing tag.
C23_ParseMessageTerminates ==
  /\ [](ppc = "scan" =>
          LET r == parseStep(remainingText, parts)
          IN r.pc = "scan" => Len(r.remainingText) < Len(remainingText))
  /\ [][ppc' = "scan" => Len(remainingText') < Len(remainingText)]_vars
  /\ <>(ppc \in {"done", "raised"})

C23_Witness ==
  /\ ppc = "done"
  /\ UnterminatedSegs = {1, 2}
  /\ Len(parts) = 2

OpenTags == {tagPairs[k].open : k \in DOMAIN tagPairs}

\* the position of the first opening tag of the text, 0 when it has none
FirstOpen(rem) ==
  IF \E i \in DOMAIN rem : rem[i] \in OpenTags
    THEN CHOOSE i \in DOMAIN rem :
           rem[i] \in OpenTags /\ \A j \in 1..(i - 1) : rem[j] \notin OpenTags
    ELSE 0

\* the type of the part a span that begins with the opening tag may yield
PartType(open) ==
  CASE open = "<ask_followup_question>" -> "followup_question"
    [] open = "<complete_task>" -> "complete_task"
    [] open = "<perform_action>" -> "perform_action"
    [] open = "<perform_action_result>" -> "action_result"
    [] open = "<explore_output>" -> "explore_output"

IsPrefix(a, b) == Len(a) <= Len(b) /\ SubSeq(b, 1, Len(a)) = a

BlockSegs == {k \in DOMAIN given : given[k] \in WellFormedBlocks}

\* the parts of a text made of words and well-formed blocks, from segment k
\* on, when the words of `run` precede segment k: each run of words is one
\* text part, each block its own part
RECURSIVE InOrder(_, _)
InOrder(k, run) ==
  LET text_part == IF run # <<>> THEN <<TextPart(run)>> ELSE <<>>
  IN IF k > Len(given) THEN text_part
     ELSE IF k \in BlockSegs THEN text_part \o <<BlockPart(given[k])>> \o InOrder(k + 1, <<>>)
     ELSE InOrder(k + 1, run \o given[k])

\* one iteration that found an opening tag: the earliest one is consumed,
\* the text before it comes first, then at most the part of that tag
EarliestFirst ==
  LET o == FirstOpen(remainingText)
      pre == Trim(SubSeq(remainingText, 1, o - 1))
      new == SubSeq(parts', Len(parts) + 1, Len(parts'))
      rest == IF pre # <<>> THEN Tail(new) ELSE new
  IN o # 0 =>
       /\ IsPrefix(parts, parts')
       /\ pre # <<>> => (new # <<>> /\ Head(new) = TextPart(pre))
       /\ Len(rest) <= 1
       /\ rest # <<>> =>
            \/ rest[1] = TextPart(<<remainingText[o]>>)
            \/ rest[1].type = PartType(remainingText[o])
       /\ ppc' = "scan" =>
            /\ Len(remainingText') <= Len(remainingText) - o
            /\ remainingText' =
                 SubSeq(remainingText, Len(remainingText) - Len(remainingText') + 1,
                        Len(remainingText))
            /\ (rest # <<>> /\ rest[1].type = "text") => Len(remainingText') = Len(remainingText) - o

\* C24: parseMessage always processes the opening tag that occurs earliest
\* in the remaining text among all known tag pairs, emits the non-blank text
\* preceding it as a text part before the tag's part, and therefore returns
\* its parts in the order their spans occur in the input.
C24_EarliestTagFirst ==
  /\ [][EarliestFirst]_vars
  /\ []((ppc = "done" /\ \A k \in DOMAIN given : k \in BlockSegs \/ given[k] = <<"a">>)
          => parts = InOrder(1, <<>>))

C24_Witness ==
  /\ ppc = "done"
  /\ given = <<TaskBlock, ActionBlock>>
  /\ parts = <<BlockPart(TaskBlock), BlockPart(ActionBlock)>>

Actionless == {ActionlessBlock, BlankActionBlock}
ActionlessSegs == {k \in DOMAIN given : given[k] \in Actionless}

\* C25: a matched perform_action span that has no action sub-field, or whose
\* action content is blank, yields no part at all in parseMessage's output,
\* and parsing resumes after that span's closing tag.
C25_ActionlessSpanYieldsNoPart ==
  (ppc = "done" /\ ActionlessSegs # {}) =>
    /\ (\A k \in DOMAIN given : given[k] # ActionBlock) =>
         \A i \in DOMAIN parts : parts[i].type # "perform_action"
    /\ \A i \in DOMAIN parts :
         parts[i].type = "text" =>
           \A j \in DOMAIN parts[i].content : parts[i].content[j] \notin {"<url>", "<action>"}
    /\ (\A k \in DOMAIN given : k \in ActionlessSegs) => parts = <<>>
    /\ \A k \in ActionlessSegs :
         k + 1 = Len(given) =>
           /\ given[k + 1] \in WellFormedBlocks => parts[Len(parts)] = BlockPart(given[k + 1])
           /\ given[k + 1] \in {<<"a">>} \cup LoneTags =>
                parts[Len(parts)] = TextPart(given[k + 1])

C25_Witness ==
  /\ ppc = "done"
  /\ given = <<BlankActionBlock, TaskBlock>>
  /\ parts = <<BlockPart(TaskBlock)>>

\* the perform_action parts of the parts parseMessage has collected
ActionParts == SelectSeq(parts, LAMBDA p : p.type = "perform_action")

\* C37: extractAction and parseMessage agree on every text: extractAction(text)
\* is non-null exactly when parseMessage(text) contains a perform_action part,
\* and then its action and optional fields equal those of the first
\* perform_action part of parseMessage(text).
C37_ExtractAgreesWithParse ==
  ppc \in {"done", "raised"} =>
    /\ extractAction(text) # None <=> (ppc = "done" /\ ActionParts # <<>>)
    /\ (extractAction(text) # None /\ ActionParts # <<>>) =>
         extractAction(text)[1] = ActionParts[1]

----------------------------------------------------------------------------
(* messageProcessor.ts: MessageProcessor.processMessage *)

\* Tokens that are not one word: tags, punctuation, and the two tokens that
\* begin or end inside a word
PerformActionTags ==
  {"<perform_action>", "</perform_action>", "<action>", "</action>", "<url>", "</url>",
   "<coordinate>", "</coordinate>", "<text>", "</text>", "<key>", "</key>",
   "<about_this_action>", "</about_this_action>", "<marker_number>", "</marker_number>"}
ResultTags ==
  {"<perform_action_result>", "</perform_action_result>", "<action_status>", "</action_status>",
   "<action_message>", "</action_message>", "<screenshot>", "</screenshot>",
   "<omni_parser>", "</omni_parser>"}
Punctuation == {" ", "\n", "@", ",", "\"", "'", "[", "]", "\\"}
Schemes == {"http://", "https://"}
\* ".com" stands for a dot followed by one of the top-level domains of the
\* pattern (com|org|net|io|dev|edu|gov|co|app)
TopLevel == ".com"

IsPlainWord(t) == t \notin PerformActionTags \cup ResultTags \cup Punctuation \cup Schemes \cup {TopLevel}
StartsWord(t) == IsPlainWord(t) \/ t \in Schemes
EndsWord(t) == IsPlainWord(t) \/ t = TopLevel
\* [^\s'"]
UrlChar(t) == t \notin {" ", "\n", "\"", "'"}

\* the end of the longest run of [^\s'"] tokens that starts at i
RunEnd(c, i) ==
  LET stops == {j \in i..Len(c) : ~UrlChar(c[j])}
  IN IF stops = {} THEN Len(c) ELSE Min(stops) - 1

\* \b after position j
BoundaryAfter(c, j) ==
  IF j = Len(c) THEN EndsWord(c[j]) ELSE EndsWord(c[j]) # StartsWord(c[j + 1])

\* /\b[a-z0-9-]+\.(com|...)\b/i.test(chunk)
DomainTest(c) ==
  \E i \in 1..Len(c) - 1 :
    /\ IsPlainWord(c[i])
    /\ c[i + 1] = TopLevel
    /\ (i + 2 > Len(c) \/ ~StartsWord(c[i + 2]))

\* chunk.match(/(https?:\/\/[^\s'"]+)/i)?.[1]
HttpMatch(c) ==
  LET starts == {i \in 1..Len(c) - 1 : c[i] \in Schemes /\ UrlChar(c[i + 1])}
  IN IF starts = {} THEN None
     ELSE Some(Slice(c, Min(starts), RunEnd(c, Min(starts) + 1)))

\* the word run that starts at i ends right before a top-level domain
DomainAt(c, i) ==
  \E j \in i..Len(c) - 1 :
    /\ \A k \in i..j : IsPlainWord(c[k])
    /\ c[j + 1] = TopLevel

\* chunk.match(/(?<!@)\b([a-z0-9-]+\.(com|...)[^\s'"]*)\b/i)?.[1], to the
\* precision of whole tokens: the match ends at the last word boundary of
\* the run of [^\s'"] that follows the domain
DomainMatch(c) ==
  LET starts == {i \in 1..Len(c) :
                   /\ DomainAt(c, i)
                   /\ (i = 1 \/ (~EndsWord(c[i - 1]) /\ c[i - 1] # "@"))}
  IN IF starts = {} THEN None
     ELSE LET i == Min(starts)
              dot == Min({j \in i..Len(c) : c[j] = TopLevel})
              ends == {b \in dot..RunEnd(c, dot) : BoundaryAfter(c, b)}
          IN Some(Slice(c, i, Max(ends)))

\* /email|mail|e-mail/i.test(chunk)
MailTest(c) == \E i \in 1..Len(c) : c[i] = "mail"

Includes(str, tok) == \E i \in 1..Len(str) : str[i] = tok

\* urlMatch before the e-mail check (lines 43-53)
UrlMatch(c) ==
  IF HttpMatch(c) # None THEN HttpMatch(c)
  ELSE IF DomainMatch(c) # None THEN Some(<<"https://">> \o DomainMatch(c)[1])
  ELSE None

\* the heuristic without the e-mail check of lines 55-60
AutoLaunchUrl_noEmailCheck(c, a) ==
  IF a.action = <<"launch">> THEN None
  ELSE IF ~(Includes(c, "http://") \/ Includes(c, "https://") \/ DomainTest(c)) THEN None
  ELSE UrlMatch(c)

\* The URL processMessage launches the browser with before the directive
\* itself (lines 38-61), None when it does not auto-launch
AutoLaunchUrl(c, a) ==
  IF a.action = <<"launch">> THEN None
  ELSE IF ~(Includes(c, "http://") \/ Includes(c, "https://") \/ DomainTest(c)) THEN None
  ELSE IF a.action = <<"type">>
          /\ ((a.text # None /\ Includes(a.text[1], "@")) \/ MailTest(c))
    THEN None
  ELSE UrlMatch(c)

\* A plausible slip: the launch action built without the url
launchAction_withoutUrl(u) == [type |-> "perform_action", action |-> <<"launch">>, url |-> None]

\* lines 65-69
launchAction(u) == [type |-> "perform_action", action |-> <<"launch">>, url |-> Some(u)]

\* the actionResult of lines 89-94
SuccessMarkup(r) ==
  LET actionMessage ==
        IF r.message # <<>> THEN r.message
        ELSE IF Truthy(r.error) THEN r.error[1]
        ELSE <<"Action completed">>
  IN <<"<perform_action_result>", "\n",
       "<action_status>", IF r.status = "success" THEN "success" ELSE "error", "</action_status>", "\n",
       "<action_message>">> \o actionMessage \o <<"</action_message>", "\n">>
       \o (IF Truthy(r.screenshot)
             THEN <<"<screenshot>">> \o r.screenshot[1] \o <<"</screenshot>">> ELSE <<>>)
       \o <<"\n">>
       \o (IF r.omniParserResult # None
             THEN <<"<omni_parser>">> \o JSONStringify(r.omniParserResult[1]) \o <<"</omni_parser>">>
             ELSE <<>>)
       \o <<"\n", "</perform_action_result>">>

\* the actionResult of lines 113-116
ErrorMarkup(errorMessage) ==
  <<"<perform_action_result>", "\n",
    "<action_status>", "error", "</action_status>", "\n",
    "<action_message>">> \o errorMessage \o <<"</action_message>", "\n",
    "</perform_action_result>">>

\* What processMessage returns once executeAction has returned r (lines
\* 84-105, and the catch of lines 106-120 when JSON.parse throws)
Processed(c, r) ==
  LET actionResult == SuccessMarkup(r)
      omniParserMatch == TagPattern(actionResult, "<omni_parser>", "</omni_parser>")
      json == IF omniParserMatch = None THEN Failed ELSE JSONParse(omniParserMatch[1])
  IN IF omniParserMatch # None /\ ~json.ok
       THEN [text |-> c, actionResult |-> Some(ErrorMarkup(<<"SyntaxError">>)),
             omniParserResult |-> None]
       ELSE [text |-> c, actionResult |-> Some(actionResult),
             omniParserResult |-> IF omniParserMatch = None THEN None ELSE Some(json.value)]

\* The responses executeAction may return
Messages == {<<>>, <<"o", "k">>, <<"o", "</action_message>", "k">>}
Screenshots == {None, Some(<<>>), Some(<<"p", "n", "g">>)}
OmniResults == {None, Some(<< <<"a", "\"", "b">>, <<>> >>), Some(<< <<"</omni_parser>">> >>)}
Responses ==
  [status : {"success", "error"}, message : Messages, error : {None, Some(<<"e">>)},
   screenshot : Screenshots, omniParserResult : OmniResults]

\* The chunks: some text, then one perform_action block or none
Email == <<"f", "@", "b", TopLevel>>
ChunkBlocks ==
  [action : {<<"type">>, <<"click">>, <<"launch">>},
   url : {None, Some(<<"https://", "b", TopLevel>>)},
   coordinate : {None},
   text : {None, Some(Email), Some(<<"b", TopLevel>>), Some(<<"f">>)},
   key : {None}, aboutThisAction : {None}, markerNumber : {None}]
Leads == {<<>>, <<"https://", "b", TopLevel, "\n">>, <<"mail", " ">>}
Chunks == {l \o RenderBlock(b) : l \in Leads, b \in ChunkBlocks} \cup {<<"f", " ", "b", TopLevel>>}

InitFrontend ==
  /\ chunk \in Chunks
  /\ fpc = "start"
  /\ faction = None
  /\ sent = <<>>
  /\ hasActiveAction = FALSE
  /\ response = None
  /\ processed = None
  /\ reparsed = None
  /\ ParserIdle
  /\ BackendIdle

\* no perform_action in the chunk: return { text: chunk }
ProcessNoAction ==
  /\ fpc = "start"
  /\ extractAction(chunk) = None
  /\ processed' = Some([text |-> chunk, actionResult |-> None, omniParserResult |-> None])
  /\ fpc' = "done"
  /\ UNCHANGED <<chunk, faction, sent, hasActiveAction, response, reparsed>>
  /\ UNCHANGED <<parserVars, backendVars>>

\* the heuristic finds a URL: setHasActiveAction(true), executeAction(launchAction)
ProcessAutoLaunch ==
  /\ fpc = "start"
  /\ extractAction(chunk) # None
  /\ AutoLaunchUrl(chunk, extractAction(chunk)[1]) # None
  /\ faction' = extractAction(chunk)
  /\ hasActiveAction' = TRUE
  /\ sent' = Append(sent, launchAction(AutoLaunchUrl(chunk, extractAction(chunk)[1])[1]))
  /\ fpc' = "launching"
  /\ UNCHANGED <<chunk, response, processed, reparsed>>
  /\ UNCHANGED <<parserVars, backendVars>>

\* the auto-launch returns or throws (the throw is caught and logged), then
\* setHasActiveAction(true), executeAction(action)
AutoLaunchSettles ==
  /\ fpc = "launching"
  /\ hasActiveAction' = TRUE
  /\ sent' = Append(sent, faction[1])
  /\ fpc' = "executing"
  /\ UNCHANGED <<chunk, faction, response, processed, reparsed>>
  /\ UNCHANGED <<parserVars, backendVars>>

\* no auto-launch: setHasActiveAction(true), executeAction(action)
ProcessExecute ==
  /\ fpc = "start"
  /\ extractAction(chunk) # None
  /\ AutoLaunchUrl(chunk, extractAction(chunk)[1]) = None
  /\ faction' = extractAction(chunk)
  /\ hasActiveAction' = TRUE
  /\ sent' = Append(sent, extractAction(chunk)[1])
  /\ fpc' = "executing"
  /\ UNCHANGED <<chunk, response, processed, reparsed>>
  /\ UNCHANGED <<parserVars, backendVars>>

\* A plausible slip: the catch does not reset the flag
ActiveAfterExecute_catchForgets(threw) == threw

\* lines 84 and 107: setHasActiveAction(false), after executeAction has
\* returned and at the start of the catch
ActiveAfterExecute(threw) == FALSE

\* executeAction returns a response
ExecuteReturns ==
  /\ fpc = "executing"
  /\ \E r \in Responses :
       /\ response' = Some(r)
       /\ processed' = Some(Processed(chunk, r))
  /\ hasActiveAction' = ActiveAfterExecute(FALSE)
  /\ fpc' = "done"
  /\ UNCHANGED <<chunk, faction, sent, reparsed>>
  /\ UNCHANGED <<parserVars, backendVars>>

\* executeAction throws: the catch of lines 106-120
ExecuteThrows ==
  /\ fpc = "executing"
  /\ hasActiveAction' = ActiveAfterExecute(TRUE)
  /\ processed' = Some([text |-> chunk, actionResult |-> Some(ErrorMarkup(<<"E">>)),
                        omniParserResult |-> None])
  /\ fpc' = "done"
  /\ UNCHANGED <<chunk, faction, sent, response, reparsed>>
  /\ UNCHANGED <<parserVars, backendVars>>

\* the produced markup is parsed again (the chat renders it with parseMessage)
ReparseResult ==
  /\ fpc = "done"
  /\ processed[1].actionResult # None
  /\ reparsed' = Some(parseMessage(processed[1].actionResult[1]))
  /\ fpc' = "reparsed"
  /\ UNCHANGED <<chunk, faction, sent, hasActiveAction, response, processed>>
  /\ UNCHANGED <<parserVars, backendVars>>

NextFrontend ==
  \/ ProcessNoAction
  \/ ProcessAutoLaunch
  \/ AutoLaunchSettles
  \/ ProcessExecute
  \/ ExecuteReturns
  \/ ExecuteThrows
  \/ ReparseResult

SpecFrontend == InitFrontend /\ [][NextFrontend]_vars

\* the action_result part the markup of r must parse to, field for field
ResultPart(r) ==
  [type |-> "action_result", status |-> r.status, message |-> r.message,
   screenshot |-> r.screenshot, omniParserResult |-> r.omniParserResult]

\* C3 (as stated): for every ActionResponse r, the markup processMessage
\* produces from r parses to an action_result part whose status, message,
\* screenshot and omniParserResult are exactly those of r.
C3_RoundTrip ==
  (fpc = "reparsed" /\ response # None) =>
    /\ reparsed[1].pc = "done"
    /\ reparsed[1].parts = <<ResultPart(response[1])>>

HasResultTag(str) == \E i \in 1..Len(str) : str[i] \in ResultTags

\* r's fields hold no tag of the result markup
TagFree(r) ==
  /\ ~HasResultTag(r.message)
  /\ (r.screenshot # None => ~HasResultTag(r.screenshot[1]))
  /\ (r.omniParserResult # None => ~HasResultTag(JSONStringify(r.omniParserResult[1])))

\* What the round trip does keep: for every r whose message is not empty and
\* whose message, screenshot and serialized omniParserResult hold no tag of
\* the perform_action_result markup, the markup parses to exactly one
\* action_result part with the status, the message and the omniParserResult
\* of r, and with the screenshot of r when that is not empty (no screenshot
\* when r has none or an empty one).
RoundTripOfPlainFields ==
  (fpc = "reparsed" /\ response # None /\ response[1].message # <<>> /\ TagFree(response[1])) =>
    /\ reparsed[1].pc = "done"
    /\ reparsed[1].parts =
         <<[ResultPart(response[1]) EXCEPT !.screenshot = Carried(response[1].screenshot)]>>

RoundTripOfPlainFieldsWitness ==
  /\ fpc = "reparsed"
  /\ response # None
  /\ response[1].message = <<"o", "k">>
  /\ response[1].screenshot = Some(<<"p", "n", "g">>)
  /\ response[1].omniParserResult = Some(<< <<"a", "\"", "b">>, <<>> >>)
  /\ reparsed[1].parts = <<ResultPart(response[1])>>

\* the text of a directive is an e-mail address
IsEmailText(a) ==
  /\ a.text # None
  /\ \E i \in 1..Len(a.text[1]) - 2 :
       a.text[1][i] = "@" /\ IsPlainWord(a.text[1][i + 1]) /\ a.text[1][i + 2] = TopLevel

\* C9: when processMessage handles a type directive whose text is an e-mail
\* address, it sends no auto-launch for the domain inside the address: the
\* only action it hands to executeAction is the type directive itself.
C9_NoAutoLaunchForEmail ==
  (faction # None /\ faction[1].action = <<"type">> /\ IsEmailText(faction[1])) =>
    /\ fpc # "launching"
    /\ sent = <<faction[1]>>

C9_Witness ==
  /\ fpc = "done"
  /\ faction # None
  /\ faction[1].action = <<"type">>
  /\ faction[1].text = Some(Email)
  /\ Includes(chunk, "https://")
  /\ sent = <<faction[1]>>

Requested == fpc \in {"executing", "done", "reparsed"} /\ faction # None

\* C22 (as stated): for a chunk containing one perform_action block,
\* processMessage sends exactly one action request to the backend, the one
\* for that directive.
C22_ExactlyOneRequest ==
  Requested => sent = <<faction[1]>>

\* C22 (amended): for a chunk containing one perform_action block,
\* processMessage sends the request for that directive exactly once, as its
\* last request; the only other request it may send is one launch request
\* before it, carrying an http(s) URL found in the chunk, and only when the
\* directive is not itself a launch.
C22_OneRequestAfterOptionalLaunch ==
  /\ Len(sent) <= 2
  /\ Requested =>
       /\ sent # <<>>
       /\ sent[Len(sent)] = faction[1]
       /\ Len(sent) = 2 =>
            /\ faction[1].action # <<"launch">>
            /\ sent[1].action = <<"launch">>
            /\ sent[1].url # None
            /\ Head(sent[1].url[1]) \in {"http://", "https://"}
            /\ sent[1] # faction[1]
  /\ fpc = "launching" => Len(sent) = 1

C22_Witness ==
  /\ fpc = "done"
  /\ faction # None
  /\ faction[1].action = <<"click">>
  /\ Len(sent) = 2
  /\ sent[1].action = <<"launch">>
  /\ sent[2] = faction[1]

\* C36: whenever processMessage sets the active-action flag to true, it
\* sets the flag to false before it returns, on every path: action success,
\* action failure, auto-launch failure followed by the action, and failure
\* while formatting the result.
C36_ActiveFlagResetBeforeReturn ==
  /\ fpc \in {"done", "reparsed"} => ~hasActiveAction
  /\ hasActiveAction => fpc \in {"launching", "executing"}
  /\ fpc \in {"launching", "executing"} => hasActiveAction

C36_Witness ==
  /\ fpc = "done"
  /\ Len(sent) = 2
  /\ response # None
  /\ response[1].omniParserResult = Some(<< <<"</omni_parser>">> >>)
  /\ processed[1].actionResult = Some(ErrorMarkup(<<"SyntaxError">>))
  /\ ~hasActiveAction

----------------------------------------------------------------------------
(* actionExecutorService.ts: ActionExecutorService *)

Docker == "ubuntu-docker-vnc"
Puppeteer == "chrome-puppeteer"

Undefined == [kind |-> "undefined"]
NaN == [kind |-> "NaN"]
Number(n) == [kind |-> "number", value |-> n]

DigitValue(d) == CHOOSE n \in 0..9 : <<"0", "1", "2", "3", "4", "5", "6", "7", "8", "9">>[n + 1] = d

RECURSIVE DigitsValue(_, _)
DigitsValue(s, acc) ==
  IF s = <<>> \/ Head(s) \notin Digits THEN acc
  ELSE DigitsValue(Tail(s), acc * 10 + DigitValue(Head(s)))

\* parseInt(piece) of a piece that may be undefined: leading whitespace is
\* skipped, the leading digits are read, and there is no number without them
parseInt(piece) ==
  IF piece = None THEN NaN
  ELSE LET ns == {i \in 1..Len(piece[1]) : ~IsSpace(piece[1][i])}
           s == IF ns = {} THEN <<>> ELSE SubSeq(piece[1], Min(ns), Len(piece[1]))
       IN IF s = <<>> \/ Head(s) \notin Digits THEN NaN ELSE Number(DigitsValue(s, 0))

\* coordinate.split(',')[k] for k = 0, 1: None stands for undefined
SplitComma(s, k) ==
  LET commas == {i \in 1..Len(s) : s[i] = ","}
      first == IF commas = {} THEN Len(s) + 1 ELSE Min(commas)
      later == {i \in commas : i > first}
      second == IF later = {} THEN Len(s) + 1 ELSE Min(later)
  IN IF k = 0 THEN Some(Slice(s, 1, first - 1))
     ELSE IF commas = {} THEN None
     ELSE Some(Slice(s, first + 1, second - 1))

\* the params object of lines 74-80
Params(req) ==
  [url |-> req.url,
   x |-> IF Truthy(req.coordinate) THEN parseInt(SplitComma(req.coordinate[1], 0)) ELSE Undefined,
   y |-> IF Truthy(req.coordinate) THEN parseInt(SplitComma(req.coordinate[1], 1)) ELSE Undefined,
   text |-> req.text,
   key |-> req.key]

ErrorResponse(msg) == [status |-> "error", message |-> msg, screenshot |-> Some(<<>>), error |-> None]

\* the response of the catch block, lines 81-89
ExecutionFailed(err) ==
  [status |-> "error", message |-> "Action execution failed", screenshot |-> Some(<<>>),
   error |-> Some(err)]

\* A plausible slip: doubleClick let through on the browser source
CapabilityError_doubleClickAllowed(req) ==
  IF req.source = Docker /\ req.action = "launch"
    THEN Some(ErrorResponse("Action 'launch' is not supported for Docker VNC source"))
  ELSE IF req.source = Docker /\ req.action = "back"
    THEN Some(ErrorResponse("Action 'back' is not supported for Docker VNC source"))
  ELSE None

\* The source-specific validation of lines 38-45 and 50-57: the response the
\* request is rejected with, None when the source supports the action
CapabilityError(req) ==
  IF req.source = Docker /\ req.action = "launch"
    THEN Some(ErrorResponse("Action 'launch' is not supported for Docker VNC source"))
  ELSE IF req.source = Docker /\ req.action = "back"
    THEN Some(ErrorResponse("Action 'back' is not supported for Docker VNC source"))
  ELSE IF req.source = Puppeteer /\ req.action = "doubleClick"
    THEN Some(ErrorResponse("Double click action is only supported for Docker VNC source"))
  ELSE None

\* A plausible slip: the launch branch taken for every browser action
IsLaunch_anyAction(req) == TRUE

\* request.action === "launch", line 59
IsLaunch(req) == req.action = "launch"

InitializeCall(source, url) == [service |-> source, op |-> "initialize", url |-> url]
PerformActionCall(req) ==
  [service |-> req.source, op |-> "performAction", action |-> req.action, params |-> Params(req)]

\* The requests, and what an adapter may answer
Requests ==
  [source : Sources \cup {"other"},
   action : {"launch", "back", "click", "doubleClick", "type", "getUrl"},
   url : {None, Some(<<>>), Some(<<"u">>)},
   coordinate : {None, Some(<<>>), Some(<<"4", "5", ",", "3">>), Some(<<"7">>),
                 Some(<<"a", ",", "3">>)},
   text : {None, Some(<<"f">>)},
   key : {None},
   direction : {None}]
    \cup
  [source : Sources,
   action : {"scroll"},
   url : {None},
   coordinate : {None},
   text : {None},
   key : {None},
   direction : {None, Some("up"), Some("down")}]
ServiceResponses ==
  {[status |-> "success", message |-> "done", screenshot |-> Some(<<"p">>), error |-> None],
   [status |-> "error", message |-> "failed", screenshot |-> Some(<<>>), error |-> None]}

InitRouter ==
  /\ initialized = [s \in Sources |-> FALSE]
  /\ eager = "pending"
  /\ request = None
  /\ rpc = "idle"
  /\ calls = <<>>
  /\ rresult = None
  /\ initThrew = FALSE
  /\ performThrew = FALSE
  /\ secondCall = None
  /\ ParserIdle
  /\ FrontendIdle
  /\ DockerIdle
  /\ BrowserIdle

RouterOthers == <<parserVars, frontendVars, dockerVars, browserVars, secondCall>>

\* the constructor's initializeDockerVNC() settles: lines 22-30
EagerInitializeReturns ==
  /\ eager = "pending"
  /\ eager' = "settled"
  /\ initialized' = [initialized EXCEPT ![Docker] = TRUE]
  /\ UNCHANGED <<request, rpc, calls, rresult, initThrew, performThrew>>
  /\ UNCHANGED RouterOthers

EagerInitializeThrows ==
  /\ eager = "pending"
  /\ eager' = "settled"
  /\ UNCHANGED <<initialized, request, rpc, calls, rresult, initThrew, performThrew>>
  /\ UNCHANGED RouterOthers

\* getServiceForSource throws on a source it does not know; the catch answers
ExecuteUnknownSource ==
  /\ rpc = "idle"
  /\ \E req \in Requests :
       /\ req.source \notin Sources
       /\ request' = Some(req)
  /\ rresult' = Some(ExecutionFailed("Unknown source"))
  /\ rpc' = "done"
  /\ UNCHANGED <<initialized, eager, calls, initThrew, performThrew>>
  /\ UNCHANGED RouterOthers

\* the action is not one the source supports
ExecuteUnsupported ==
  /\ rpc = "idle"
  /\ \E req \in Requests :
       /\ req.source \in Sources
       /\ CapabilityError(req) # None
       /\ request' = Some(req)
       /\ rresult' = CapabilityError(req)
  /\ rpc' = "done"
  /\ UNCHANGED <<initialized, eager, calls, initThrew, performThrew>>
  /\ UNCHANGED RouterOthers

\* lines 47-49: the Docker service is not initialized, initializeDockerVNC() is awaited
ExecuteDockerInitialize ==
  /\ rpc = "idle"
  /\ \E req \in Requests :
       /\ req.source = Docker
       /\ CapabilityError(req) = None
       /\ ~initialized[Docker]
       /\ request' = Some(req)
       /\ calls' = <<InitializeCall(Docker, <<>>)>>
  /\ rpc' = "initializing"
  /\ UNCHANGED <<initialized, eager, rresult, initThrew, performThrew>>
  /\ UNCHANGED RouterOthers

\* lines 59-66: launch without a url
ExecuteLaunchWithoutUrl ==
  /\ rpc = "idle"
  /\ \E req \in Requests :
       /\ req.source = Puppeteer
       /\ CapabilityError(req) = None
       /\ IsLaunch(req)
       /\ ~Truthy(req.url)
       /\ request' = Some(req)
  /\ rresult' = Some(ErrorResponse("URL is required for launch action"))
  /\ rpc' = "done"
  /\ UNCHANGED <<initialized, eager, calls, initThrew, performThrew>>
  /\ UNCHANGED RouterOthers

\* line 67: service.initialize(request.url) is awaited
ExecuteLaunch ==
  /\ rpc = "idle"
  /\ \E req \in Requests :
       /\ req.source = Puppeteer
       /\ CapabilityError(req) = None
       /\ IsLaunch(req)
       /\ Truthy(req.url)
       /\ request' = Some(req)
       /\ calls' = <<InitializeCall(Puppeteer, req.url[1])>>
  /\ rpc' = "launching"
  /\ UNCHANGED <<initialized, eager, rresult, initThrew, performThrew>>
  /\ UNCHANGED RouterOthers

\* lines 74-80 reached without an await before them
ExecutePerform ==
  /\ rpc = "idle"
  /\ \E req \in Requests :
       /\ req.source \in Sources
       /\ CapabilityError(req) = None
       /\ \/ req.source = Docker /\ initialized[Docker]
          \/ req.source = Puppeteer /\ ~IsLaunch(req)
       /\ request' = Some(req)
       /\ calls' = <<PerformActionCall(req)>>
  /\ rpc' = "performing"
  /\ UNCHANGED <<initialized, eager, rresult, initThrew, performThrew>>
  /\ UNCHANGED RouterOthers

\* initializeDockerVNC() inside executeAction: initialize returned
DockerInitializeReturns ==
  /\ rpc = "initializing"
  /\ initialized' = [initialized EXCEPT ![Docker] = TRUE]
  /\ calls' = Append(calls, PerformActionCall(request[1]))
  /\ rpc' = "performing"
  /\ UNCHANGED <<eager, request, rresult, initThrew, performThrew>>
  /\ UNCHANGED RouterOthers

\* initialize raised: initializeDockerVNC() logs the error and returns, and
\* executeAction goes on to performAction
DockerInitializeThrows ==
  /\ rpc = "initializing"
  /\ initThrew' = TRUE
  /\ calls' = Append(calls, PerformActionCall(request[1]))
  /\ rpc' = "performing"
  /\ UNCHANGED <<initialized, eager, request, rresult, performThrew>>
  /\ UNCHANGED RouterOthers

LaunchReturns ==
  /\ rpc = "launching"
  /\ initialized' = [initialized EXCEPT ![Puppeteer] = TRUE]
  /\ \E r \in ServiceResponses : rresult' = Some(r)
  /\ rpc' = "done"
  /\ UNCHANGED <<eager, request, calls, initThrew, performThrew>>
  /\ UNCHANGED RouterOthers

LaunchThrows ==
  /\ rpc = "launching"
  /\ initThrew' = TRUE
  /\ rresult' = Some(ExecutionFailed("initialize failed"))
  /\ rpc' = "done"
  /\ UNCHANGED <<initialized, eager, request, calls, performThrew>>
  /\ UNCHANGED RouterOthers

PerformReturns ==
  /\ rpc = "performing"
  /\ \E r \in ServiceResponses : rresult' = Some(r)
  /\ rpc' = "done"
  /\ UNCHANGED <<initialized, eager, request, calls, initThrew, performThrew>>
  /\ UNCHANGED RouterOthers

PerformThrows ==
  /\ rpc = "performing"
  /\ performThrew' = TRUE
  /\ rresult' = Some(ExecutionFailed("performAction failed"))
  /\ rpc' = "done"
  /\ UNCHANGED <<initialized, eager, request, calls, initThrew>>
  /\ UNCHANGED RouterOthers

\* the caller has the response; the next request may come
ExecuteNext ==
  /\ rpc = "done"
  /\ rpc' = "idle"
  /\ request' = None
  /\ calls' = <<>>
  /\ rresult' = None
  /\ initThrew' = FALSE
  /\ performThrew' = FALSE
  /\ UNCHANGED <<initialized, eager>>
  /\ UNCHANGED RouterOthers

NextRouter ==
  \/ EagerInitializeReturns
  \/ EagerInitializeThrows
  \/ ExecuteUnknownSource
  \/ ExecuteUnsupported
  \/ ExecuteDockerInitialize
  \/ ExecuteLaunchWithoutUrl
  \/ ExecuteLaunch
  \/ ExecutePerform
  \/ DockerInitializeReturns
  \/ DockerInitializeThrows
  \/ LaunchReturns
  \/ LaunchThrows
  \/ PerformReturns
  \/ PerformThrows
  \/ ExecuteNext

SpecRouter == InitRouter /\ [][NextRouter]_vars

\* the three capability violations of the claim
IsCapabilityViolation(req) ==
  \/ req.source = Puppeteer /\ req.action = "doubleClick"
  \/ req.source = Docker /\ req.action \in {"launch", "back"}

\* C5: executeAction with doubleClick on the browser backend, or with launch
\* or back on the desktop backend, returns a response with status error
\* whatever the other parameters are, and no initialize and no performAction
\* call is made for that directive.
C5_CapabilityErrorBeforeAnyCall ==
  (request # None /\ IsCapabilityViolation(request[1])) =>
    /\ rpc = "done"
    /\ rresult # None
    /\ rresult[1].status = "error"
    /\ calls = <<>>

C5_Witness ==
  /\ rpc = "done"
  /\ request # None
  /\ request[1].source = Puppeteer
  /\ request[1].action = "doubleClick"
  /\ request[1].coordinate = Some(<<"4", "5", ",", "3">>)
  /\ initialized[Puppeteer]
  /\ rresult[1].status = "error"
  /\ calls = <<>>

\* C10: executeAction always completes by returning an ActionResponse and
\* never throws: an unknown source, an exception raised by adapter
\* initialization and an exception raised by the adapter's performAction
\* each yield a response with status error.
C10_AlwaysAnErrorResponse ==
  (rpc = "done") =>
    /\ rresult # None
    /\ (request[1].source \notin Sources \/ initThrew \/ performThrew)
         => rresult[1].status = "error"

\* a coordinate string of the form "<integer>,<integer>"
AllDigits(s) == s # <<>> /\ \A i \in 1..Len(s) : s[i] \in Digits
WellFormedCoordinate(s) ==
  \E c \in 1..Len(s) :
    /\ s[c] = ","
    /\ AllDigits(Slice(s, 1, c - 1))
    /\ AllDigits(Slice(s, c + 1, Len(s)))

PerformActionCalls == {i \in 1..Len(calls) : calls[i].op = "performAction"}

\* C11: for every directive whose coordinate string is not of the form
\* "<integer>,<integer>" (the empty string and a single number included),
\* executeAction returns a validation error and performAction is never called
\* with it; every x and y an adapter receives is an integer.
C11_MalformedCoordinateRejected ==
  /\ (request # None /\ request[1].source \in Sources
        /\ request[1].coordinate # None
        /\ ~WellFormedCoordinate(request[1].coordinate[1])) =>
       /\ PerformActionCalls = {}
       /\ rpc = "done" => rresult[1].status = "error"
  /\ \A i \in PerformActionCalls :
       /\ calls[i].params.x.kind # "NaN"
       /\ calls[i].params.y.kind # "NaN"

\* C12: executeAction invokes the browser adapter's initialize only for a
\* launch directive on the browser source whose url is present; a launch
\* without url returns an error response without initializing anything, and
\* no other directive makes the router initialize the browser adapter.
C12_BrowserInitializeOnlyOnLaunch ==
  /\ \A i \in 1..Len(calls) :
       (calls[i].op = "initialize" /\ calls[i].service = Puppeteer) =>
         /\ request[1].source = Puppeteer
         /\ request[1].action = "launch"
         /\ Truthy(request[1].url)
         /\ calls[i].url = request[1].url[1]
  /\ (request # None /\ request[1].source = Puppeteer
        /\ request[1].action = "launch" /\ ~Truthy(request[1].url)) =>
       /\ rpc = "done"
       /\ rresult[1].status = "error"
       /\ calls = <<>>

C12_Witness ==
  /\ rpc = "done"
  /\ request[1].source = Puppeteer
  /\ request[1].action = "launch"
  /\ request[1].url = Some(<<"u">>)
  /\ calls = <<InitializeCall(Puppeteer, <<"u">>)>>
  /\ initialized[Puppeteer]

\* the desktop adapter's performAction is called in this step
DesktopDispatched ==
  /\ Len(calls') > Len(calls)
  /\ calls'[Len(calls')].op = "performAction"
  /\ calls'[Len(calls')].service = Docker

\* C31: the router hands a desktop action to the adapter's performAction
\* only when the desktop backend's initialized flag is true: if the flag is
\* false when an action arrives and the re-attempted initialization fails,
\* the action is not dispatched.
C31_DispatchOnlyWhenInitialized ==
  [][DesktopDispatched => initialized'[Docker]]_vars

\* C32: for a desktop directive with action scroll and direction d in
\* {up, down}, the parameters the router hands to the adapter carry
\* direction d, so that the adapter's scroll case performs the scroll
\* instead of returning its missing-direction error.
C32_ScrollDirectionHandedOver ==
  \A i \in PerformActionCalls :
    (request[1].source = Docker /\ request[1].action = "scroll"
       /\ request[1].direction # None) =>
      /\ "direction" \in DOMAIN calls[i].params
      /\ calls[i].params.direction = request[1].direction

----------------------------------------------------------------------------
(* actionExecutorService.ts: a second executeAction call while one is in    *)
(* progress.  executeAction is an async method that tests no in-flight      *)
(* flag: a call that arrives while another is suspended at an await runs    *)
(* the same code up to its own await                                        *)

InFlight == {"initializing", "launching", "performing"}

\* the second directive; the parameters the router only passes on are left out
SecondRequests ==
  {r \in Requests : r.source \in Sources /\ r.coordinate = None /\ r.text = None}

\* lines 32-80 for the second call, up to its first await
SecondExecuteStarts ==
  /\ rpc \in InFlight
  /\ secondCall = None
  /\ \E req \in SecondRequests :
       /\ CapabilityError(req) = None
       /\ ~(req.source = Puppeteer /\ IsLaunch(req) /\ ~Truthy(req.url))
       /\ secondCall' = Some([request |-> req,
                          awaiting |-> IF req.source = Docker /\ ~initialized[Docker]
                                         THEN "initialize"
                                       ELSE IF req.source = Puppeteer /\ IsLaunch(req)
                                         THEN "launch"
                                       ELSE "performAction"])
  /\ UNCHANGED routerCallVars
  /\ UNCHANGED <<parserVars, frontendVars, dockerVars, browserVars>>

\* lines 22-30 and 48: initializeDockerVNC() settles, with or without the flag set
SecondInitializeSettles ==
  /\ secondCall # None
  /\ secondCall[1].awaiting = "initialize"
  /\ \E ok \in BOOLEAN :
       initialized' = IF ok THEN [initialized EXCEPT ![Docker] = TRUE] ELSE initialized
  /\ secondCall' = Some([secondCall[1] EXCEPT !.awaiting = "performAction"])
  /\ UNCHANGED <<eager, request, rpc, calls, rresult, initThrew, performThrew>>
  /\ UNCHANGED <<parserVars, frontendVars, dockerVars, browserVars>>

\* lines 67-69 and 81-89: initialize(url) settles and the second call returns
SecondLaunchSettles ==
  /\ secondCall # None
  /\ secondCall[1].awaiting = "launch"
  /\ \E ok \in BOOLEAN :
       initialized' = IF ok THEN [initialized EXCEPT ![Puppeteer] = TRUE] ELSE initialized
  /\ secondCall' = None
  /\ UNCHANGED <<eager, request, rpc, calls, rresult, initThrew, performThrew>>
  /\ UNCHANGED <<parserVars, frontendVars, dockerVars, browserVars>>

\* lines 74-89: performAction settles and the second call returns
SecondPerformSettles ==
  /\ secondCall # None
  /\ secondCall[1].awaiting = "performAction"
  /\ secondCall' = None
  /\ UNCHANGED routerCallVars
  /\ UNCHANGED <<parserVars, frontendVars, dockerVars, browserVars>>

NextRouterOverlap ==
  \/ NextRouter
  \/ SecondExecuteStarts
  \/ SecondInitializeSettles
  \/ SecondLaunchSettles
  \/ SecondPerformSettles

SpecRouterOverlap == InitRouter /\ [][NextRouterOverlap]_vars

\* C15: the core never accepts a second directive while one is in flight for
\* the same backend: at no time are two executeAction calls for the same
\* source both between their start and the return of their response.
C15_OneDirectiveInFlight ==
  ~(/\ rpc \in InFlight
    /\ secondCall # None
    /\ secondCall[1].request.source = request[1].source)

----------------------------------------------------------------------------
(* DockerActions.ts: getUrl and scroll *)

URL_CACHE_TTL == 2000
scrollAttempts == 2
scrollDelay == 50
contentLoadDelay == 2000

\* The clock is read up to MaxClock; it advances in steps that bring two
\* readings just under the TTL apart, and exactly the TTL apart
MaxClock == 3000
TickSteps == {URL_CACHE_TTL \div 2, URL_CACHE_TTL \div 2 - 1}
MaxWindows == 2

AboutBlank == <<"about:blank">>

Exec(containerId, cmd) == [kind |-> "exec", containerId |-> containerId, cmd |-> cmd]
WheelClick(containerId, button) ==
  [kind |-> "exec", containerId |-> containerId, cmd |-> "xdotool click", button |-> button]
Delay(ms) == [kind |-> "delay", ms |-> ms]
Screenshot(containerId) ==
  [kind |-> "screenshot", containerId |-> containerId, path |-> "/tmp/screenshot.png"]

\* the commands of the two extraction methods
ExtractionCmds == {"write get_firefox_url.sh", "run get_firefox_url.sh", "xdotool search", "xprop WM_NAME"}

\* A plausible slip: an entry is served however old it is
CacheHit_noTtl(cacheEntry, now) == cacheEntry # None

\* line 243: cacheEntry && (now - cacheEntry.timestamp) < URL_CACHE_TTL
CacheHit(cacheEntry, now) ==
  cacheEntry # None /\ now - cacheEntry[1].timestamp < URL_CACHE_TTL

\* a command with what it printed; Thrown when executeCommand rejected
ExecOut(containerId, cmd, out) ==
  [kind |-> "exec", containerId |-> containerId, cmd |-> cmd, out |-> out]
Thrown == <<"throw">>

\* A plausible slip: any output that is not blank taken for the url
LooksLikeUrl_anyOutput(out) == out # <<>> /\ Trim(out) # <<>>

\* lines 337-338 and 381-382: out && out.trim() !== "" && out.startsWith("http")
LooksLikeUrl(out) == out # <<>> /\ Trim(out) # <<>> /\ Head(out) \in Schemes

\* what a command may print
CommandOutputs ==
  {<<>>, AboutBlank, <<"https://", "b">>, <<"http://", "f", "\n">>, <<" ", "https://", "b">>}

DockerOthers == <<parserVars, frontendVars, routerVars, browserVars, pending>>

InitDocker ==
  /\ urlCache = [c \in Containers |-> None]
  /\ clock = 0
  /\ dpc = "idle"
  /\ dcall = None
  /\ commands = <<>>
  /\ dresult = None
  /\ apc = "idle"
  /\ paction = None
  /\ checks = <<>>
  /\ emitted = <<>>
  /\ presult = None
  /\ pending = None
  /\ ParserIdle
  /\ FrontendIdle
  /\ RouterIdle
  /\ BrowserIdle

\* time passes.  A call reads the clock once, when it starts (line 240), so
\* the time that passes during a call is counted when the call has returned
Tick ==
  /\ dpc = "idle"
  /\ apc = "idle"
  /\ \E d \in TickSteps :
       /\ clock + d <= MaxClock
       /\ clock' = clock + d
  /\ UNCHANGED <<urlCache, dpc, dcall, commands, dresult>>
  /\ UNCHANGED <<performVars, DockerOthers>>

GetUrlCall(c, hit) ==
  [op |-> "getUrl", containerId |-> c, now |-> clock, cacheEntry |-> urlCache[c],
   hit |-> hit, url |-> None, windows |-> 0]

\* lines 240-246: the entry is fresh, its url is returned (the finally block
\* still runs)
GetUrlFromCache ==
  /\ dpc = "idle"
  /\ apc = "idle"
  /\ \E c \in Containers :
       /\ CacheHit(urlCache[c], clock)
       /\ dcall' = Some([GetUrlCall(c, TRUE) EXCEPT !.url = Some(urlCache[c][1].url)])
  /\ dpc' = "cleanup"
  /\ commands' = <<>>
  /\ dresult' = None
  /\ UNCHANGED <<urlCache, clock>>
  /\ UNCHANGED <<performVars, DockerOthers>>

\* no fresh entry: the retrieval starts
GetUrlRetrieve ==
  /\ dpc = "idle"
  /\ apc = "idle"
  /\ \E c \in Containers :
       /\ ~CacheHit(urlCache[c], clock)
       /\ dcall' = Some(GetUrlCall(c, FALSE))
  /\ dpc' = "write_script"
  /\ commands' = <<>>
  /\ dresult' = None
  /\ UNCHANGED <<urlCache, clock>>
  /\ UNCHANGED <<performVars, DockerOthers>>

\* the url is cached with the timestamp read at the start of the call, and
\* returned through the finally block
CacheAndReturn(url) ==
  /\ urlCache' = [urlCache EXCEPT ![dcall[1].containerId] =
                    Some([url |-> url, timestamp |-> dcall[1].now])]
  /\ dcall' = Some([dcall[1] EXCEPT !.url = Some(url)])
  /\ dpc' = "cleanup"

\* lines 256-325: the script is written; a failure skips to the second method
WriteScript ==
  /\ dpc = "write_script"
  /\ commands' = Append(commands, Exec(dcall[1].containerId, "write get_firefox_url.sh"))
  /\ \E ok \in BOOLEAN : dpc' = IF ok THEN "run_script" ELSE "search_windows"
  /\ UNCHANGED <<urlCache, clock, dcall, dresult>>
  /\ UNCHANGED <<performVars, DockerOthers>>

\* lines 328-345: the script runs
RunScript ==
  /\ dpc = "run_script"
  /\ \/ \E out \in CommandOutputs :
          /\ commands' = Append(commands, ExecOut(dcall[1].containerId, "run get_firefox_url.sh", out))
          /\ IF LooksLikeUrl(out) THEN CacheAndReturn(Trim(out))
             ELSE dpc' = "search_windows" /\ UNCHANGED <<urlCache, dcall>>
     \/ /\ commands' = Append(commands, ExecOut(dcall[1].containerId, "run get_firefox_url.sh", Thrown))
        /\ dpc' = "search_windows"
        /\ UNCHANGED <<urlCache, dcall>>
  /\ UNCHANGED <<clock, dresult>>
  /\ UNCHANGED <<performVars, DockerOthers>>

\* lines 355-365 and 398-403: the windows are listed; with none, or when the
\* command fails, the default is cached
SearchWindows ==
  /\ dpc = "search_windows"
  /\ commands' = Append(commands, Exec(dcall[1].containerId, "xdotool search"))
  /\ \/ \E n \in 1..MaxWindows :
          /\ dcall' = Some([dcall[1] EXCEPT !.windows = n])
          /\ dpc' = "window_title"
          /\ UNCHANGED urlCache
     \/ CacheAndReturn(AboutBlank)
  /\ UNCHANGED <<clock, dresult>>
  /\ UNCHANGED <<performVars, DockerOthers>>

\* lines 368-393: the title of the next window is read
WindowTitle ==
  /\ dpc = "window_title"
  /\ \E out \in CommandOutputs \cup {Thrown} :
       /\ commands' = Append(commands, ExecOut(dcall[1].containerId, "xprop WM_NAME", out))
       /\ IF out # Thrown /\ LooksLikeUrl(out) THEN CacheAndReturn(Trim(out))
          ELSE IF dcall[1].windows > 1
            THEN /\ dcall' = Some([dcall[1] EXCEPT !.windows = @ - 1])
                 /\ dpc' = "window_title"
                 /\ UNCHANGED urlCache
          ELSE CacheAndReturn(AboutBlank)
  /\ UNCHANGED <<clock, dresult>>
  /\ UNCHANGED <<performVars, DockerOthers>>

\* A plausible slip: no finally block
FinallyCommands_none(containerId) == <<>>

\* lines 410-418: the command of the finally block
FinallyCommands(containerId) == <<Exec(containerId, "rm -f")>>

\* lines 407-425: the finally block removes the temporary files, whether the
\* command succeeds or not, and the call returns
Cleanup ==
  /\ dpc = "cleanup"
  /\ commands' = commands \o FinallyCommands(dcall[1].containerId)
  /\ dresult' = dcall[1].url
  /\ dpc' = "done"
  /\ UNCHANGED <<urlCache, clock, dcall>>
  /\ UNCHANGED <<performVars, DockerOthers>>

\* A plausible slip: the pause follows every wheel click
DelayAfterClick_always(i) == TRUE

\* line 205: if (i < scrollAttempts - 1)
DelayAfterClick(i) == i < scrollAttempts - 1

\* the loop test of line 197 after i++
AfterIncrement(i) == IF i + 1 < scrollAttempts THEN "scroll_click" ELSE "content_delay"

ScrollFailed == [status |-> "error", message |-> "Action Result: Scroll action failed",
                 screenshot |-> <<>>]

\* lines 190-197
Scroll ==
  /\ dpc = "idle"
  /\ apc = "idle"
  /\ \E c \in Containers, direction \in {"up", "down"} :
       dcall' = Some([op |-> "scroll", containerId |-> c, direction |-> direction,
                      button |-> IF direction = "up" THEN "4" ELSE "5", i |-> 0])
  /\ dpc' = IF 0 < scrollAttempts THEN "scroll_click" ELSE "content_delay"
  /\ commands' = <<>>
  /\ dresult' = None
  /\ UNCHANGED <<urlCache, clock>>
  /\ UNCHANGED <<performVars, DockerOthers>>

\* lines 198-207: one wheel click; a failed command ends the call in the catch
ScrollClick ==
  /\ dpc = "scroll_click"
  /\ commands' = Append(commands, WheelClick(dcall[1].containerId, dcall[1].button))
  /\ \/ /\ DelayAfterClick(dcall[1].i)
        /\ dpc' = "scroll_delay"
        /\ UNCHANGED <<dcall, dresult>>
     \/ /\ ~DelayAfterClick(dcall[1].i)
        /\ dcall' = Some([dcall[1] EXCEPT !.i = @ + 1])
        /\ dpc' = AfterIncrement(dcall[1].i)
        /\ UNCHANGED dresult
     \/ /\ dresult' = Some(ScrollFailed)
        /\ dpc' = "done"
        /\ UNCHANGED dcall
  /\ UNCHANGED <<urlCache, clock>>
  /\ UNCHANGED <<performVars, DockerOthers>>

\* line 206: the pause between two wheel clicks
ScrollDelay ==
  /\ dpc = "scroll_delay"
  /\ commands' = Append(commands, Delay(scrollDelay))
  /\ dcall' = Some([dcall[1] EXCEPT !.i = @ + 1])
  /\ dpc' = AfterIncrement(dcall[1].i)
  /\ UNCHANGED <<urlCache, clock, dresult>>
  /\ UNCHANGED <<performVars, DockerOthers>>

\* line 211: the pause for the content to load
ContentLoadDelay ==
  /\ dpc = "content_delay"
  /\ commands' = Append(commands, Delay(contentLoadDelay))
  /\ dpc' = "screenshot"
  /\ UNCHANGED <<urlCache, clock, dcall, dresult>>
  /\ UNCHANGED <<performVars, DockerOthers>>

\* lines 214-229: the screenshot is taken and the call returns
TakeScreenshot ==
  /\ dpc = "screenshot"
  /\ commands' = Append(commands, Screenshot(dcall[1].containerId))
  /\ \/ \E shot \in {<<>>, <<"p">>} :
          dresult' = Some([status |-> "success",
                           message |-> IF dcall[1].direction = "up"
                                         THEN "Action Result: Scrolled up"
                                         ELSE "Action Result: Scrolled down",
                           screenshot |-> shot])
     \/ dresult' = Some(ScrollFailed)
  /\ dpc' = "done"
  /\ UNCHANGED <<urlCache, clock, dcall>>
  /\ UNCHANGED <<performVars, DockerOthers>>

\* the caller has the result; the next call may come
DockerReturn ==
  /\ dpc = "done"
  /\ apc = "idle"
  /\ dpc' = "idle"
  /\ dcall' = None
  /\ commands' = <<>>
  /\ dresult' = None
  /\ UNCHANGED <<urlCache, clock>>
  /\ UNCHANGED <<performVars, DockerOthers>>

----------------------------------------------------------------------------
(* DockerActions.ts: click, doubleClick, type, keyPress and performAction *)

clickSettleDelay == 2000
typeSettleDelay == 500

InputOps == {"click", "doubleClick", "type", "keyPress"}

\* the xdotool command of each input primitive: lines 40-53, 82-97, 125-129, 159-163
InputCommand(op) ==
  CASE op = "click" -> "xdotool mousemove click"
    [] op = "doubleClick" -> "xdotool mousemove click --repeat 2"
    [] op = "type" -> "xdotool type"
    [] op = "keyPress" -> "xdotool key"

\* A plausible slip: the short pause after every primitive
SettleDelay_short(op) == typeSettleDelay

\* the pause before the screenshot: lines 56, 100, 132, 166
SettleDelay(op) == IF op \in {"click", "doubleClick"} THEN clickSettleDelay ELSE typeSettleDelay

InputSucceeded(op, shot) ==
  [status |-> "success",
   message |-> CASE op = "click" -> "Action Result: Clicked"
                 [] op = "doubleClick" -> "Action Result: Double clicked"
                 [] op = "type" -> "Action Result: Typed text"
                 [] op = "keyPress" -> "Action Result: Pressed key",
   screenshot |-> shot]

\* the catch of each primitive: the error is turned into a response
InputFailed(op) ==
  [status |-> "error",
   message |-> CASE op = "click" -> "Action Result: Click action failed"
                 [] op = "doubleClick" -> "Action Result: Double click action failed"
                 [] op = "type" -> "Action Result: Type action failed"
                 [] op = "keyPress" -> "Action Result: Key press action failed",
   screenshot |-> <<>>]

\* the xdotool command runs; a failed command ends the primitive in its catch
InputCommandRuns ==
  /\ dpc = "input"
  /\ commands' = Append(commands, Exec(dcall[1].containerId, InputCommand(dcall[1].op)))
  /\ \/ dpc' = "settle" /\ UNCHANGED dresult
     \/ dresult' = Some(InputFailed(dcall[1].op)) /\ dpc' = "done"
  /\ UNCHANGED <<urlCache, clock, dcall>>
  /\ UNCHANGED <<performVars, DockerOthers>>

InputSettles ==
  /\ dpc = "settle"
  /\ commands' = Append(commands, Delay(SettleDelay(dcall[1].op)))
  /\ dpc' = "input_screenshot"
  /\ UNCHANGED <<urlCache, clock, dcall, dresult>>
  /\ UNCHANGED <<performVars, DockerOthers>>

InputScreenshot ==
  /\ dpc = "input_screenshot"
  /\ commands' = Append(commands, Screenshot(dcall[1].containerId))
  /\ \/ \E shot \in {<<>>, <<"p">>} : dresult' = Some(InputSucceeded(dcall[1].op, shot))
     \/ dresult' = Some(InputFailed(dcall[1].op))
  /\ dpc' = "done"
  /\ UNCHANGED <<urlCache, clock, dcall>>
  /\ UNCHANGED <<performVars, DockerOthers>>

\* Socket events of DockerActions.io.sockets.emit
ActionPerformed == [event |-> "action_performed"]
BrowserActionError(message, action, url) ==
  [event |-> "browser-action-error", message |-> message, action |-> action, url |-> url]

ActionError(message) == [status |-> "error", message |-> message, screenshot |-> <<>>]

FirefoxCheck(containerId, out) ==
  [kind |-> "exec", containerId |-> containerId, cmd |-> "ps aux | grep -i firefox", out |-> out]

\* A plausible slip: the outcome of the check ignored
ProcessMissing_ignored(checkResult) == FALSE

\* line 442: !checkResult.trim()
ProcessMissing(checkResult) == Trim(checkResult) = <<>>

\* what the ps pipeline may print
CheckOutputs == {<<>>, <<"\n">>, <<"firefox", "\n">>}

VNCParams(url, x, y, txt, key, direction) ==
  [url |-> url, x |-> x, y |-> y, text |-> txt, key |-> key, direction |-> direction]

\* the directives the desktop adapter is called with
DesktopDirectives ==
  {[action |-> "launch", params |-> VNCParams(Some(<<"u">>), Undefined, Undefined, None, None, None)],
   [action |-> "click", params |-> VNCParams(Some(<<"u">>), Number(4), Number(3), None, None, None)],
   [action |-> "click", params |-> VNCParams(None, Undefined, Undefined, None, None, None)],
   [action |-> "click", params |-> VNCParams(None, Number(7), Undefined, None, None, None)],
   [action |-> "doubleClick", params |-> VNCParams(None, Number(4), Number(3), None, None, None)],
   [action |-> "doubleClick", params |-> VNCParams(Some(<<"u">>), Undefined, Undefined, None, None, None)],
   [action |-> "type", params |-> VNCParams(None, Undefined, Undefined, Some(<<"f">>), None, None)],
   [action |-> "type", params |-> VNCParams(None, Undefined, Undefined, Some(<<>>), None, None)],
   [action |-> "type", params |-> VNCParams(Some(<<"u">>), Undefined, Undefined, None, None, None)],
   [action |-> "keyPress", params |-> VNCParams(None, Undefined, Undefined, None, Some(<<"Enter">>), None)],
   [action |-> "keyPress", params |-> VNCParams(None, Undefined, Undefined, None, None, None)],
   [action |-> "scroll", params |-> VNCParams(None, Undefined, Undefined, None, None, Some("down"))],
   [action |-> "scroll", params |-> VNCParams(None, Undefined, Undefined, None, None, None)],
   [action |-> "scroll_up", params |-> VNCParams(None, Undefined, Undefined, None, None, None)],
   [action |-> "scroll_down", params |-> VNCParams(None, Undefined, Undefined, None, None, None)],
   [action |-> "getUrl", params |-> VNCParams(Some(<<"u">>), Undefined, Undefined, None, None, None)],
   [action |-> "hover", params |-> VNCParams(None, Number(4), Number(3), None, None, None)]}

\* lines 428-435: performAction is called
PerformAction ==
  /\ apc = "idle"
  /\ dpc = "idle"
  /\ \E c \in Containers, d \in DesktopDirectives :
       /\ paction' = Some([containerId |-> c, action |-> d.action, params |-> d.params])
       /\ apc' = IF d.action # "launch" THEN "check" ELSE "dispatch"
  /\ checks' = <<>>
  /\ emitted' = <<>>
  /\ presult' = None
  /\ commands' = <<>>
  /\ dresult' = None
  /\ UNCHANGED <<urlCache, clock, dpc, dcall>>
  /\ UNCHANGED DockerOthers

\* lines 436-457: the ps pipeline runs.  With nothing printed the error is
\* broadcast and returned; a failed command is swallowed and the switch is
\* reached as if the process were there
ProcessCheck ==
  /\ apc = "check"
  /\ \/ \E out \in CheckOutputs :
          /\ checks' = Append(checks, FirefoxCheck(paction[1].containerId, out))
          /\ IF ProcessMissing(out)
               THEN /\ emitted' = Append(emitted,
                         BrowserActionError("Firefox not running - cannot perform action",
                                            paction[1].action, paction[1].params.url))
                    /\ presult' = Some(ActionError("Firefox not running - cannot perform action"))
                    /\ apc' = "done"
               ELSE /\ apc' = "dispatch"
                    /\ UNCHANGED <<emitted, presult>>
     \/ /\ checks' = Append(checks, FirefoxCheck(paction[1].containerId, <<"throw">>))
        /\ apc' = "dispatch"
        /\ UNCHANGED <<emitted, presult>>
  /\ UNCHANGED <<urlCache, clock, dpc, dcall, commands, dresult, paction>>
  /\ UNCHANGED DockerOthers

\* the else branches of the switch and its default: the message returned,
\* None when the case calls its primitive
Refusal(action, params) ==
  CASE action \in {"click", "doubleClick"} ->
         IF params.x # Undefined /\ params.y # Undefined THEN None
         ELSE Some(IF action = "click" THEN "Action Result: Click requires x,y coordinates"
                   ELSE "Action Result: Double click requires x,y coordinates")
    [] action = "type" ->
         IF Truthy(params.text) THEN None ELSE Some("Action Result: Type requires text parameter")
    [] action = "keyPress" ->
         IF Truthy(params.key) THEN None ELSE Some("Action Result: Key press requires key parameter")
    [] action = "scroll" ->
         IF params.direction # None THEN None
         ELSE Some("Action Result: Scroll requires direction parameter")
    [] action \in {"scroll_up", "scroll_down", "getUrl"} -> None
    [] OTHER -> Some("Action Result: Unknown action")

\* lines 466-470, 481-485, 495-499, 506-510, 517-521, 539-543: the switch
\* returns an error response without calling a primitive
DispatchRefuses ==
  /\ apc = "dispatch"
  /\ Refusal(paction[1].action, paction[1].params) # None
  /\ presult' = Some(ActionError(Refusal(paction[1].action, paction[1].params)[1]))
  /\ apc' = "done"
  /\ UNCHANGED <<urlCache, clock, dpc, dcall, commands, dresult, paction, checks, emitted>>
  /\ UNCHANGED DockerOthers

\* lines 464, 475, 490, 504: an input primitive is called
DispatchInput ==
  /\ apc = "dispatch"
  /\ paction[1].action \in InputOps
  /\ Refusal(paction[1].action, paction[1].params) = None
  /\ dcall' = Some([op |-> paction[1].action, containerId |-> paction[1].containerId])
  /\ dpc' = "input"
  /\ apc' = "primitive"
  /\ UNCHANGED <<urlCache, clock, commands, dresult, paction, checks, emitted, presult>>
  /\ UNCHANGED DockerOthers

\* lines 515, 525, 528: scroll is called
DispatchScroll ==
  /\ apc = "dispatch"
  /\ paction[1].action \in {"scroll", "scroll_up", "scroll_down"}
  /\ Refusal(paction[1].action, paction[1].params) = None
  /\ LET direction == CASE paction[1].action = "scroll" -> paction[1].params.direction[1]
                        [] paction[1].action = "scroll_up" -> "up"
                        [] paction[1].action = "scroll_down" -> "down"
     IN dcall' = Some([op |-> "scroll", containerId |-> paction[1].containerId,
                       direction |-> direction,
                       button |-> IF direction = "up" THEN "4" ELSE "5", i |-> 0])
  /\ dpc' = IF 0 < scrollAttempts THEN "scroll_click" ELSE "content_delay"
  /\ apc' = "primitive"
  /\ UNCHANGED <<urlCache, clock, commands, dresult, paction, checks, emitted, presult>>
  /\ UNCHANGED DockerOthers

\* line 531: getUrl is called
DispatchGetUrl ==
  /\ apc = "dispatch"
  /\ paction[1].action = "getUrl"
  /\ LET c == paction[1].containerId
     IN IF CacheHit(urlCache[c], clock)
          THEN /\ dcall' = Some([GetUrlCall(c, TRUE) EXCEPT !.url = Some(urlCache[c][1].url)])
               /\ dpc' = "cleanup"
          ELSE /\ dcall' = Some(GetUrlCall(c, FALSE))
               /\ dpc' = "write_script"
  /\ apc' = "primitive"
  /\ UNCHANGED <<urlCache, clock, commands, dresult, paction, checks, emitted, presult>>
  /\ UNCHANGED DockerOthers

\* lines 532-536
UrlRetrieved(url) ==
  [status |-> "success", message |-> "Action Result: Retrieved URL", url |-> url,
   screenshot |-> <<>>]

\* lines 545-547: the primitive returned; action_performed is broadcast and
\* the primitive's response is returned
PrimitiveReturns ==
  /\ apc = "primitive"
  /\ dpc = "done"
  /\ emitted' = Append(emitted, ActionPerformed)
  /\ presult' = IF paction[1].action = "getUrl" THEN Some(UrlRetrieved(dresult[1])) ELSE dresult
  /\ apc' = "done"
  /\ dpc' = "idle"
  /\ UNCHANGED <<urlCache, clock, dcall, commands, dresult, paction, checks>>
  /\ UNCHANGED DockerOthers

\* the caller has the response; the next call may come
PerformActionReturn ==
  /\ apc = "done"
  /\ apc' = "idle"
  /\ paction' = None
  /\ checks' = <<>>
  /\ emitted' = <<>>
  /\ presult' = None
  /\ dcall' = None
  /\ commands' = <<>>
  /\ dresult' = None
  /\ UNCHANGED <<urlCache, clock, dpc>>
  /\ UNCHANGED DockerOthers

DockerCalls ==
  \/ GetUrlFromCache
  \/ GetUrlRetrieve
  \/ WriteScript
  \/ RunScript
  \/ SearchWindows
  \/ WindowTitle
  \/ Cleanup
  \/ Scroll
  \/ ScrollClick
  \/ ScrollDelay
  \/ ContentLoadDelay
  \/ TakeScreenshot
  \/ DockerReturn
  \/ InputCommandRuns
  \/ InputSettles
  \/ InputScreenshot
  \/ PerformAction
  \/ ProcessCheck
  \/ DispatchRefuses
  \/ DispatchInput
  \/ DispatchScroll
  \/ DispatchGetUrl
  \/ PrimitiveReturns
  \/ PerformActionReturn

NextDocker ==
  \/ Tick
  \/ DockerCalls

SpecDocker == InitDocker /\ [][NextDocker]_vars

Extractions == {i \in 1..Len(commands) : commands[i].cmd \in ExtractionCmds}

\* C6: a getUrl call made less than 2000 ms after the timestamp of the
\* container's cached entry returns the cached url and runs neither the
\* script extraction nor the window-title extraction; a call made once the
\* TTL has expired runs the extraction again.
C6_CacheWithinTtl ==
  (dpc = "done" /\ dcall[1].op = "getUrl" /\ dcall[1].cacheEntry # None) =>
    IF dcall[1].now - dcall[1].cacheEntry[1].timestamp < 2000
      THEN dresult = Some(dcall[1].cacheEntry[1].url) /\ Extractions = {}
      ELSE Extractions # {}

C6_Witness ==
  /\ dpc = "done"
  /\ dcall[1].op = "getUrl"
  /\ dcall[1].cacheEntry # None
  /\ dcall[1].now - dcall[1].cacheEntry[1].timestamp = 1999
  /\ dresult = Some(<<"https://", "b">>)
  /\ urlCache[dcall[1].containerId] = dcall[1].cacheEntry
  /\ Extractions = {}

\* C8: a successful desktop scroll issues exactly 2 wheel-click commands
\* (button 5 for down, button 4 for up), pauses for the inter-click delay
\* between them and not after the second, then pauses for the content-load
\* delay, and only then captures the screenshot, in that order.
C8_ScrollSequence ==
  (dpc = "done" /\ dcall[1].op = "scroll" /\ dresult[1].status = "success") =>
    LET click == WheelClick(dcall[1].containerId, IF dcall[1].direction = "down" THEN "5" ELSE "4")
    IN commands = <<click, Delay(scrollDelay), click, Delay(contentLoadDelay),
                    Screenshot(dcall[1].containerId)>>

C8_Witness ==
  /\ dpc = "done"
  /\ dcall[1].op = "scroll"
  /\ dcall[1].direction = "down"
  /\ dresult[1].status = "success"
  /\ Len(commands) = 5
  /\ commands[3] = WheelClick(dcall[1].containerId, "5")

Broadcasts(name) == {i \in 1..Len(emitted) : emitted[i].event = name}

\* C16: the desktop performAction broadcasts action_performed exactly when
\* the action completed successfully: a call that returns status success
\* broadcasts it once, and a call that returns status error (a primitive
\* whose shell command failed included) does not broadcast it.
C16_ActionPerformedIffSuccess ==
  (apc = "done") =>
    /\ presult[1].status = "success" => Cardinality(Broadcasts("action_performed")) = 1
    /\ presult[1].status = "error" => Broadcasts("action_performed") = {}

\* C17: every desktop performAction call that returns status error (missing
\* parameter, unknown action, process not running, failed shell command)
\* broadcasts one browser-action-error event carrying the action name and
\* the url of the call.
C17_EveryErrorIsBroadcast ==
  (apc = "done" /\ presult[1].status = "error") =>
    /\ Cardinality(Broadcasts("browser-action-error")) = 1
    /\ \A i \in Broadcasts("browser-action-error") :
         /\ emitted[i].action = paction[1].action
         /\ emitted[i].url = paction[1].params.url

NoProcessReported ==
  /\ checks # <<>>
  /\ checks[1].out # <<"throw">>
  /\ Trim(checks[1].out) = <<>>

\* C18: for every action other than launch the desktop performAction checks
\* that the browser process is running before any interaction command; when
\* the check reports no process, the call returns status error, broadcasts
\* one browser-action-error and no action_performed, and runs no
\* interaction, screenshot or URL-extraction command.
C18_ProcessCheckedFirst ==
  /\ apc = "check" => (checks = <<>> /\ commands = <<>> /\ dpc = "idle")
  /\ (paction # None /\ paction[1].action # "launch" /\ apc # "check") =>
       /\ Len(checks) = 1
       /\ checks[1].containerId = paction[1].containerId
  /\ NoProcessReported =>
       /\ apc = "done"
       /\ presult[1].status = "error"
       /\ emitted = <<BrowserActionError("Firefox not running - cannot perform action",
                                         paction[1].action, paction[1].params.url)>>
       /\ commands = <<>>
       /\ dpc = "idle"

C18_Witness ==
  /\ apc = "done"
  /\ paction[1].action = "click"
  /\ paction[1].params.x = Number(4)
  /\ paction[1].params.url = Some(<<"u">>)
  /\ checks[1].out = <<"\n">>
  /\ presult[1].status = "error"
  /\ Len(emitted) = 1
  /\ commands = <<>>

ScriptRuns == {i \in 1..Len(commands) : commands[i].cmd = "run get_firefox_url.sh"}
TitleReads == {i \in 1..Len(commands) : commands[i].cmd = "xprop WM_NAME"}
WindowSearches == {i \in 1..Len(commands) : commands[i].cmd = "xdotool search"}

\* an absolute http(s) URL: a scheme and what follows it, without blanks around
IsHttpUrl(u) == Len(u) > 1 /\ Head(u) \in {"http://", "https://"} /\ Trim(u) = u

\* the command printed an absolute URL (blanks after it aside)
Yielded(i) == commands[i].out # Thrown /\ IsHttpUrl(Trim(commands[i].out)) /\ ~IsSpace(Head(commands[i].out))

\* C20: getUrl never throws and returns either an absolute http(s) URL or
\* the sentinel "about:blank"; a call that runs the extraction attempts the
\* window-title fallback only when the script did not yield an absolute URL,
\* and returns the sentinel only when both methods failed; otherwise it
\* returns the URL the first successful method printed.
C20_UrlOrSentinel ==
  (dpc = "done" /\ dcall[1].op = "getUrl") =>
    /\ dresult # None
    /\ IsHttpUrl(dresult[1]) \/ dresult[1] = AboutBlank
    /\ dcall[1].hit => dresult[1] = dcall[1].cacheEntry[1].url
    /\ (WindowSearches \cup TitleReads # {}) => \A i \in ScriptRuns : ~Yielded(i)
    /\ ~dcall[1].hit =>
         IF \E i \in ScriptRuns \cup TitleReads : Yielded(i)
           THEN LET first == Min({i \in ScriptRuns \cup TitleReads : Yielded(i)})
                IN /\ dresult[1] = Trim(commands[first].out)
                   /\ \A i \in ScriptRuns \cup TitleReads \cup WindowSearches : i <= first
           ELSE /\ dresult[1] = AboutBlank
                /\ WindowSearches # {}

C20_Witness ==
  /\ dpc = "done"
  /\ dcall[1].op = "getUrl"
  /\ ~dcall[1].hit
  /\ ScriptRuns # {}
  /\ \A i \in ScriptRuns : commands[i].out = AboutBlank
  /\ Cardinality(TitleReads) = 2
  /\ dresult = Some(<<"http://", "f">>)

Cleanups == {i \in 1..Len(commands) : commands[i].cmd = "rm -f"}

\* C21: every getUrl call that performs extraction issues the cleanup
\* command that removes the temporary helper files after its last extraction
\* command and before it returns, on every outcome: URL found by the script,
\* URL found from a window title, sentinel fallback, or a failed command.
C21_CleanupOnEveryOutcome ==
  (dpc = "done" /\ dcall[1].op = "getUrl" /\ Extractions # {}) =>
    /\ Cleanups = {Len(commands)}
    /\ commands[Len(commands)].containerId = dcall[1].containerId
    /\ \A i \in Extractions : i < Len(commands)

C21_Witness ==
  /\ dpc = "done"
  /\ dcall[1].op = "getUrl"
  /\ \E i \in ScriptRuns : commands[i].out = Thrown
  /\ \E i \in TitleReads : commands[i].out = Thrown
  /\ dresult = Some(AboutBlank)
  /\ Cleanups = {Len(commands)}

\* C30: for desktop click, doubleClick, type and keyPress, exactly one
\* automation command is issued, and the screenshot is captured only after
\* that command has completed and the fixed settle delay (2000 ms for click
\* and doubleClick, 500 ms for type and keyPress) has elapsed; if the command
\* fails, no delay is waited, no screenshot is captured and the response has
\* status error.
C30_CommandDelayScreenshot ==
  /\ (dcall # None /\ dcall[1].op \in InputOps) =>
       /\ \A i \in 1..Len(commands) :
            /\ commands[i].kind = "exec" => i = 1
            /\ commands[i].kind = "delay" =>
                 /\ i = 2
                 /\ commands[i].ms = IF dcall[1].op \in {"click", "doubleClick"} THEN 2000 ELSE 500
            /\ commands[i].kind = "screenshot" => i = 3
       /\ Len(commands) >= 1 =>
            /\ commands[1].kind = "exec"
            /\ commands[1].containerId = dcall[1].containerId
       /\ Len(commands) >= 2 => commands[2].kind = "delay"
       /\ Len(commands) <= 3
  /\ (dpc = "done" /\ dcall[1].op \in InputOps) =>
       /\ Len(commands) \in {1, 3}
       /\ Len(commands) = 1 => dresult[1].status = "error"
       /\ dresult[1].status = "success" => Len(commands) = 3

C30_Witness ==
  /\ dpc = "done"
  /\ dcall[1].op = "doubleClick"
  /\ dresult[1].status = "success"
  /\ Len(commands) = 3
  /\ commands[2] = Delay(2000)
  /\ commands[3].kind = "screenshot"

\* C35: a getUrl call that is answered from the cache issues no command at
\* all to the container.
C35_CacheHitIssuesNoCommand ==
  (dpc = "done" /\ dcall[1].op = "getUrl" /\ dcall[1].hit) => commands = <<>>

----------------------------------------------------------------------------
(* DockerActions.ts: a second call on the adapter while one is in progress. *)
(* The methods are static and async and take no lock: a call that arrives   *)
(* while another awaits a command runs its own commands in between.  The    *)
(* second call is a getUrl that finds no fresh entry and whose script       *)
(* prints the url; each of its commands is dispatched in one step and its   *)
(* result observed in a later one                                           *)

OverlapCommands == <<"write get_firefox_url.sh", "run get_firefox_url.sh", "rm -f">>

CallInProgress == dpc \notin {"idle", "done"} \/ apc \in {"check", "dispatch"}

\* lines 237-249: getUrl is entered while the other call is suspended
OverlapStarts ==
  /\ pending = None
  /\ CallInProgress
  /\ \E c \in Containers :
       /\ ~CacheHit(urlCache[c], clock)
       /\ pending' = Some([op |-> "getUrl", containerId |-> c, now |-> clock,
                           next |-> 1, inflight |-> FALSE])
  /\ UNCHANGED dockerCallVars
  /\ UNCHANGED <<parserVars, frontendVars, routerVars, browserVars>>

\* lines 256, 328, 410: DockerCommands.executeCommand is called
OverlapDispatches ==
  /\ pending # None
  /\ ~pending[1].inflight
  /\ pending[1].next <= Len(OverlapCommands)
  /\ pending' = Some([pending[1] EXCEPT !.inflight = TRUE])
  /\ UNCHANGED dockerCallVars
  /\ UNCHANGED <<parserVars, frontendVars, routerVars, browserVars>>

\* the awaited command settles; line 343 caches what the script printed
OverlapObserves ==
  /\ pending # None
  /\ pending[1].inflight
  /\ pending' = Some([pending[1] EXCEPT !.inflight = FALSE, !.next = @ + 1])
  /\ urlCache' = IF OverlapCommands[pending[1].next] = "run get_firefox_url.sh"
                   THEN [urlCache EXCEPT ![pending[1].containerId] =
                           Some([url |-> <<"https://", "b">>, timestamp |-> pending[1].now])]
                   ELSE urlCache
  /\ UNCHANGED <<clock, dpc, dcall, commands, dresult, performVars>>
  /\ UNCHANGED <<parserVars, frontendVars, routerVars, browserVars>>

\* the second call has returned its url
OverlapReturns ==
  /\ pending # None
  /\ ~pending[1].inflight
  /\ pending[1].next > Len(OverlapCommands)
  /\ pending' = None
  /\ UNCHANGED dockerCallVars
  /\ UNCHANGED <<parserVars, frontendVars, routerVars, browserVars>>

NextDockerOverlap ==
  \/ DockerCalls
  \/ OverlapStarts
  \/ OverlapDispatches
  \/ OverlapObserves
  \/ OverlapReturns

SpecDockerOverlap == InitDocker /\ [][NextDockerOverlap]_vars

\* the call in progress runs a command on the container in this step
Dispatched(c) ==
  \/ /\ Len(commands') > Len(commands)
     /\ commands'[Len(commands')].kind \in {"exec", "screenshot"}
     /\ commands'[Len(commands')].containerId = c
  \/ /\ Len(checks') > Len(checks)
     /\ checks'[Len(checks')].containerId = c

\* C14: for each desktop container the shell commands execute strictly
\* sequentially: in every interleaving of performAction and getUrl calls on
\* the container a command is dispatched only after the previous command's
\* result has been observed, so that at most one command is in flight per
\* container at any time.
C14_OneCommandInFlight ==
  [][\A c \in Containers :
       Dispatched(c) => ~(pending # None /\ pending[1].containerId = c /\ pending[1].inflight)]_vars

\* the call in progress issues its cleanup command in this step
MainCleans(c) ==
  /\ dcall # None
  /\ dcall[1].op = "getUrl"
  /\ Len(commands') > Len(commands)
  /\ commands'[Len(commands')].kind = "exec"
  /\ commands'[Len(commands')].cmd = "rm -f"
  /\ commands'[Len(commands')].containerId = c

\* the second call issues its cleanup command in this step
SecondCleans(c) ==
  /\ pending # None
  /\ pending[1].containerId = c
  /\ OverlapCommands[Min({pending[1].next, Len(OverlapCommands)})] = "rm -f"
  /\ ~pending[1].inflight
  /\ pending' # None
  /\ pending'[1].inflight

\* the call in progress has written the helper script and not yet run it
MainHoldsScript(c) ==
  /\ dpc = "run_script"
  /\ dcall # None
  /\ dcall[1].op = "getUrl"
  /\ dcall[1].containerId = c

\* the second call has written the helper script and not yet run it
SecondHoldsScript(c) ==
  /\ pending # None
  /\ pending[1].containerId = c
  /\ pending[1].next <= Len(OverlapCommands)
  /\ OverlapCommands[Min({pending[1].next, Len(OverlapCommands)})] = "run get_firefox_url.sh"
  /\ ~pending[1].inflight

\* C34: when two getUrl calls for the same container are in flight at once,
\* the cleanup step of one call never removes the helper script between the
\* other call's creation of that script and its execution of it.
C34_CleanupSparesTheOtherScript ==
  [][\A c \in Containers :
       /\ ~(MainCleans(c) /\ SecondHoldsScript(c))
       /\ ~(SecondCleans(c) /\ MainHoldsScript(c))]_vars

----------------------------------------------------------------------------
(* PuppeteerActions.ts: click, captureScreenshot, detectLoading and the     *)
(* loading poll                                                             *)

\* the timers one behaviour creates, and the poll ticks between two calls
MaxTimers == 3
MaxTicks == 3

Emit(name, from) == [kind |-> "emit", name |-> name, from |-> from]
Page(op) == [kind |-> op]
EmitAt(name, from, coordinate) ==
  [kind |-> "emit", name |-> name, from |-> from, coordinate |-> coordinate]
MouseClick(coordinate) == [kind |-> "mouse.click", coordinate |-> coordinate]
MouseMove(coordinate) == [kind |-> "mouse.move", coordinate |-> coordinate]

\* what page.evaluate returns for the point: null, or the element's info
NoElement == [found |-> FALSE, isInput |-> FALSE, isOffScreen |-> FALSE]
ElementInfos ==
  {NoElement} \cup [found : {TRUE}, isInput : BOOLEAN, isOffScreen : BOOLEAN]

BrowserError(msg) == [status |-> "error", message |-> msg]
BrowserSuccess(msg) == [status |-> "success", message |-> msg]

\* A plausible slip: the click goes on although nothing is under the point
ElementFound_always(elementInfo) == TRUE

\* line 78: if (!elementInfo) return the error
ElementFound(elementInfo) == elementInfo.found

BrowserOutside == <<parserVars, frontendVars, routerVars, dockerVars>>
BrowserOthers == <<BrowserOutside, lastHoverPosition>>
monitorVars == <<loadingMonitorInterval, isMonitoringLoading, armed, timers, ticks>>

InitBrowser ==
  /\ loadingMonitorInterval = None
  /\ isMonitoringLoading = FALSE
  /\ armed = {}
  /\ timers = 0
  /\ ticks = EmptyBag
  /\ bpc = "idle"
  /\ bcall = None
  /\ events = <<>>
  /\ bresult = None
  /\ lastHoverPosition = None
  /\ ParserIdle
  /\ FrontendIdle
  /\ RouterIdle
  /\ DockerIdle

\* lines 30-35: no coordinate in the action
ClickWithoutCoordinate ==
  /\ bpc = "idle"
  /\ bcall' = Some([op |-> "click", coordinate |-> None, elementInfo |-> None,
                    hasNavigation |-> FALSE])
  /\ events' = <<>>
  /\ bresult' = Some(BrowserError("Coordinates are required for click action"))
  /\ bpc' = "done"
  /\ UNCHANGED monitorVars
  /\ UNCHANGED BrowserOthers

\* lines 36-50: the navigation wait is armed, the element is looked up
Click ==
  /\ bpc = "idle"
  /\ \E c \in {<<"4", "5", "0", ",", "3", "0", "0">>, <<"1", ",", "2">>} :
       bcall' = Some([op |-> "click", coordinate |-> Some(c), elementInfo |-> None,
                      hasNavigation |-> FALSE])
  /\ events' = <<Page("waitForNavigation")>>
  /\ bresult' = None
  /\ bpc' = "evaluate"
  /\ UNCHANGED monitorVars
  /\ UNCHANGED BrowserOthers

\* the catch of lines 127-133
ClickFails ==
  /\ bresult' = Some(BrowserError("Click action failed"))
  /\ bpc' = "done"

\* lines 53-88: page.evaluate returns the element under the point, or null
ClickEvaluate ==
  /\ bpc = "evaluate"
  /\ events' = Append(events, Page("evaluate elementFromPoint"))
  /\ \/ \E info \in ElementInfos :
          /\ bcall' = Some([bcall[1] EXCEPT !.elementInfo = Some(info)])
          /\ IF ~ElementFound(info)
               THEN /\ bresult' = Some(BrowserError("No element found at specified coordinates"))
                    /\ bpc' = "done"
               ELSE /\ bpc' = IF info.isOffScreen THEN "scroll_wait" ELSE "mouse_click"
                    /\ UNCHANGED bresult
     \/ ClickFails /\ UNCHANGED bcall
  /\ UNCHANGED monitorVars
  /\ UNCHANGED BrowserOthers

\* line 87: the element was off screen, page.waitForTimeout(300)
ClickScrollWait ==
  /\ bpc = "scroll_wait"
  /\ events' = Append(events, Page("waitForTimeout"))
  /\ \/ bpc' = "mouse_click" /\ UNCHANGED bresult
     \/ ClickFails
  /\ UNCHANGED bcall
  /\ UNCHANGED monitorVars
  /\ UNCHANGED BrowserOthers

\* line 94: page.mouse.click(x, y)
ClickMouse ==
  /\ bpc = "mouse_click"
  /\ events' = Append(events, MouseClick(bcall[1].coordinate[1]))
  /\ \/ bpc' = "navigation_wait" /\ UNCHANGED bresult
     \/ ClickFails
  /\ UNCHANGED bcall
  /\ UNCHANGED monitorVars
  /\ UNCHANGED BrowserOthers

\* A plausible slip: the focus notification sent for every element
FocusEvents_always(elementInfo, coordinate) ==
  <<EmitAt("input-focused", "click", coordinate)>>

\* lines 101-103: input-focused with the coordinate, for an input field
FocusEvents(elementInfo, coordinate) ==
  IF elementInfo.isInput THEN <<EmitAt("input-focused", "click", coordinate)>> ELSE <<>>

\* A plausible slip: the stability wait not skipped after a navigation
AfterNavigationWait_always(hasNavigation) == "stability_wait"

\* lines 109-112: if (!hasNavigation) await this.waitTillHTMLStable(page)
AfterNavigationWait(hasNavigation) ==
  IF hasNavigation THEN "url_check" ELSE "stability_wait"

\* lines 97-112: the navigation wait ends, with a navigation or by its
\* timeout; the notifications are sent
ClickNavigationSettles ==
  /\ bpc = "navigation_wait"
  /\ \E hasNavigation \in BOOLEAN :
       /\ bcall' = Some([bcall[1] EXCEPT !.hasNavigation = hasNavigation])
       /\ bpc' = AfterNavigationWait(hasNavigation)
  /\ events' = events
                 \o FocusEvents(bcall[1].elementInfo[1], bcall[1].coordinate[1])
                 \o <<Emit("action_performed", "click")>>
  /\ UNCHANGED bresult
  /\ UNCHANGED monitorVars
  /\ UNCHANGED BrowserOthers

\* How the race of lines 410-417 may go: the readiness signal comes first,
\* waitForLoadState rejects first (its own timeout expired, or the page went
\* away), the fallback delay elapses first, or waitForLoadState cannot even
\* be called
WaitOutcomes == {"domcontentloaded", "rejected", "fallback delay", "call failed"}

StabilityWait(outcome) == [kind |-> "waitTillHTMLStable", outcome |-> outcome]

\* A plausible slip: the rejection of waitForLoadState not caught
waitTillHTMLStable_rejectionEscapes(outcome) ==
  IF outcome = "rejected" THEN "thrown" ELSE "returned"

\* lines 406-427: whether waitTillHTMLStable returns or throws.  The
\* rejection is turned into a resolution by the catch of line 413, and what
\* is raised inside the try is caught at line 423
waitTillHTMLStable(outcome) ==
  CASE outcome = "domcontentloaded" -> "returned"
    [] outcome = "rejected" -> "returned"
    [] outcome = "fallback delay" -> "returned"
    [] outcome = "call failed" -> "returned"

\* line 111: await this.waitTillHTMLStable(page), inside the try of click
ClickStabilityWait ==
  /\ bpc = "stability_wait"
  /\ \E outcome \in WaitOutcomes :
       /\ events' = Append(events, StabilityWait(outcome))
       /\ IF waitTillHTMLStable(outcome) = "returned"
            THEN bpc' = "url_check" /\ UNCHANGED bresult
            ELSE ClickFails
  /\ UNCHANGED bcall
  /\ UNCHANGED monitorVars
  /\ UNCHANGED BrowserOthers

\* lines 115-126: url-change when the url differs, and the response
ClickReturns ==
  /\ bpc = "url_check"
  /\ \E changed \in BOOLEAN :
       events' = IF changed THEN Append(events, Emit("url-change", "click")) ELSE events
  /\ bresult' = Some(BrowserSuccess(IF bcall[1].hasNavigation
                                      THEN "Click performed with navigation"
                                      ELSE "Click action performed successfully"))
  /\ bpc' = "done"
  /\ UNCHANGED bcall
  /\ UNCHANGED monitorVars
  /\ UNCHANGED BrowserOthers

HoverOthers == <<monitorVars, BrowserOutside>>

\* lines 339-344: no coordinate in the action
HoverWithoutCoordinate ==
  /\ bpc = "idle"
  /\ bcall' = Some([op |-> "hover", coordinate |-> None, elementExists |-> None,
                    remembered |-> lastHoverPosition])
  /\ events' = <<>>
  /\ bresult' = Some(BrowserError("Coordinates are required for hover action"))
  /\ bpc' = "done"
  /\ UNCHANGED lastHoverPosition
  /\ UNCHANGED HoverOthers

\* lines 345-352: the position is stored; `remembered` keeps what the field
\* held when the call came
Hover ==
  /\ bpc = "idle"
  /\ \E c \in {<<"4", "5", "0", ",", "3", "0", "0">>, <<"1", ",", "2">>, <<"7", ",", "7">>} :
       /\ bcall' = Some([op |-> "hover", coordinate |-> Some(c), elementExists |-> None,
                         remembered |-> lastHoverPosition])
       /\ lastHoverPosition' = Some(c)
  /\ events' = <<>>
  /\ bresult' = None
  /\ bpc' = "hover_evaluate"
  /\ UNCHANGED HoverOthers

\* the catch of lines 390-396
HoverFails ==
  /\ bresult' = Some(BrowserError("Failed to hover"))
  /\ bpc' = "done"

\* lines 355-365: page.evaluate tells whether an element is under the point
HoverEvaluate ==
  /\ bpc = "hover_evaluate"
  /\ events' = Append(events, Page("evaluate elementFromPoint"))
  /\ \/ \E elementExists \in BOOLEAN :
          /\ bcall' = Some([bcall[1] EXCEPT !.elementExists = Some(elementExists)])
          /\ IF ~elementExists
               THEN /\ bresult' = Some(BrowserError("No element found at hover coordinates"))
                    /\ bpc' = "done"
               ELSE /\ bpc' = "mouse_move"
                    /\ UNCHANGED bresult
     \/ HoverFails /\ UNCHANGED bcall
  /\ UNCHANGED lastHoverPosition
  /\ UNCHANGED HoverOthers

\* line 368: page.mouse.move(x, y)
HoverMouse ==
  /\ bpc = "mouse_move"
  /\ events' = Append(events, MouseMove(bcall[1].coordinate[1]))
  /\ \/ bpc' = "hover_info" /\ UNCHANGED bresult
     \/ HoverFails
  /\ UNCHANGED <<bcall, lastHoverPosition>>
  /\ UNCHANGED HoverOthers

\* lines 371-389: the element's info is read, action_performed is sent
HoverReturns ==
  /\ bpc = "hover_info"
  /\ \/ /\ events' = events \o <<Page("evaluate element info"),
                                  Emit("action_performed", "hover")>>
        /\ bresult' = Some(BrowserSuccess("Hover performed"))
        /\ bpc' = "done"
     \/ /\ events' = Append(events, Page("evaluate element info"))
        /\ HoverFails
  /\ UNCHANGED <<bcall, lastHoverPosition>>
  /\ UNCHANGED HoverOthers

\* lines 429-431
captureScreenshot ==
  /\ bpc = "idle"
  /\ bcall' = Some([op |-> "captureScreenshot"])
  /\ events' = <<Page("screenshot")>>
  /\ bresult' = Some(BrowserSuccess("screenshot"))
  /\ bpc' = "done"
  /\ UNCHANGED monitorVars
  /\ UNCHANGED BrowserOthers

\* lines 443-549: detectLoading evaluates the page
detectLoading ==
  /\ bpc = "idle"
  /\ \E afterAction \in BOOLEAN :
       bcall' = Some([op |-> "detectLoading", afterAction |-> afterAction])
  /\ events' = <<Page("evaluate loading indicators")>>
  /\ bresult' = None
  /\ bpc' = "detecting"
  /\ UNCHANGED monitorVars
  /\ UNCHANGED BrowserOthers

\* lines 602-605: the armed timers once the timer of the field is cleared
ClearedMonitor(timersArmed, interval) ==
  IF interval # None THEN timersArmed \ {interval[1]} ELSE timersArmed

\* lines 552-564: loading is detected; startLoadingMonitor (lines 600-610)
\* clears the timer of the field and sets a new one
DetectLoadingFound ==
  /\ bpc = "detecting"
  /\ timers < MaxTimers
  /\ timers' = timers + 1
  /\ armed' = ClearedMonitor(armed, loadingMonitorInterval) \cup {timers + 1}
  /\ loadingMonitorInterval' = Some(timers + 1)
  /\ isMonitoringLoading' = TRUE
  /\ events' = Append(events, Emit("loading-state-update", "detectLoading"))
  /\ bresult' = Some(BrowserSuccess("Loading detected, monitoring until complete"))
  /\ bpc' = "done"
  /\ UNCHANGED <<ticks, bcall>>
  /\ UNCHANGED BrowserOthers

\* lines 565-580: no loading indicator; the timers are not touched
DetectLoadingNone ==
  /\ bpc = "detecting"
  /\ events' = events \o <<Emit("loading-state-update", "detectLoading")>>
                 \o (IF bcall[1].afterAction
                       THEN <<Emit("page-ready", "detectLoading")>> ELSE <<>>)
  /\ bresult' = Some(BrowserSuccess("No loading indicators detected, page is ready"))
  /\ bpc' = "done"
  /\ UNCHANGED bcall
  /\ UNCHANGED monitorVars
  /\ UNCHANGED BrowserOthers

\* lines 581-592: the evaluation failed
DetectLoadingFails ==
  /\ bpc = "detecting"
  /\ events' = events \o <<Emit("loading-state-update", "detectLoading"),
                           Emit("page-ready", "detectLoading")>>
  /\ bresult' = Some(BrowserError("Failed to detect loading state"))
  /\ bpc' = "done"
  /\ UNCHANGED bcall
  /\ UNCHANGED monitorVars
  /\ UNCHANGED BrowserOthers

PollEmits == Cardinality({i \in 1..Len(events) : events[i].kind = "emit" /\ events[i].from = "poll"})

\* lines 610-613: an armed timer fires, its callback awaits page.evaluate;
\* setInterval does not wait for the callbacks it has started
PollTickStarts ==
  /\ PollEmits + BagCardinality(ticks) < MaxTicks
  /\ \E t \in armed :
       ticks' = ticks (+) SetToBag({t})
  /\ UNCHANGED <<loadingMonitorInterval, isMonitoringLoading, armed, timers>>
  /\ UNCHANGED <<bpc, bcall, events, bresult>>
  /\ UNCHANGED BrowserOthers

\* lines 685-689: the page is still loading
PollTickLoading ==
  /\ \E t \in BagToSet(ticks) :
       ticks' = ticks (-) SetToBag({t})
  /\ events' = Append(events, Emit("loading-state-update", "poll"))
  /\ UNCHANGED <<loadingMonitorInterval, isMonitoringLoading, armed, timers>>
  /\ UNCHANGED <<bpc, bcall, bresult>>
  /\ UNCHANGED BrowserOthers

\* lines 692-715: loading is over, or the evaluation failed: the timer of the
\* field is cleared and page-ready is sent
PollTickEnds ==
  /\ \E t \in BagToSet(ticks) :
       ticks' = ticks (-) SetToBag({t})
  /\ armed' = ClearedMonitor(armed, loadingMonitorInterval)
  /\ loadingMonitorInterval' = None
  /\ isMonitoringLoading' = FALSE
  /\ events' = events \o <<Emit("loading-state-update", "poll"), Emit("page-ready", "poll")>>
  /\ UNCHANGED timers
  /\ UNCHANGED <<bpc, bcall, bresult>>
  /\ UNCHANGED BrowserOthers

\* the caller has the response; the next call may come
BrowserReturn ==
  /\ bpc = "done"
  /\ bpc' = "idle"
  /\ bcall' = None
  /\ events' = <<>>
  /\ bresult' = None
  /\ UNCHANGED monitorVars
  /\ UNCHANGED BrowserOthers

NextBrowser ==
  \/ ClickWithoutCoordinate
  \/ Click
  \/ ClickEvaluate
  \/ ClickScrollWait
  \/ ClickMouse
  \/ ClickNavigationSettles
  \/ ClickStabilityWait
  \/ ClickReturns
  \/ captureScreenshot
  \/ detectLoading
  \/ DetectLoadingFound
  \/ DetectLoadingNone
  \/ DetectLoadingFails
  \/ PollTickStarts
  \/ PollTickLoading
  \/ PollTickEnds
  \/ BrowserReturn

SpecBrowser == InitBrowser /\ [][NextBrowser]_vars

\* C4: a browser click at a coordinate with no element underneath returns
\* {status: "error", message: "No element found at specified coordinates"}
\* and has dispatched no pointer event and captured no screenshot.
C4_NoElementNoPointerEvent ==
  (bpc = "done" /\ bcall[1].op = "click" /\ bcall[1].elementInfo = Some(NoElement)) =>
    /\ bresult = Some([status |-> "error", message |-> "No element found at specified coordinates"])
    /\ \A i \in 1..Len(events) : events[i].kind \notin {"mouse.click", "screenshot"}

C4_Witness ==
  /\ bpc = "done"
  /\ bcall[1].op = "click"
  /\ bcall[1].coordinate = Some(<<"4", "5", "0", ",", "3", "0", "0">>)
  /\ bcall[1].elementInfo = Some(NoElement)
  /\ bresult[1].status = "error"
  /\ events[Len(events)] = Page("evaluate elementFromPoint")

\* C7: there are never two loading-poll timers armed at the same time, and
\* every detectLoading invocation that completes while a poll is active
\* cancels the active poll's timer, whatever the invocation detects.
C7_EveryDetectCancelsActivePoll ==
  [][/\ Cardinality(armed') <= 1
     /\ (bpc = "detecting" /\ bpc' = "done" /\ loadingMonitorInterval # None)
          => loadingMonitorInterval[1] \notin armed']_vars

\* the click may take its time, but each of its waits ends
SpecBrowserFair == SpecBrowser /\ WF_vars(ClickStabilityWait)

StabilityWaits == {i \in 1..Len(events) : events[i].kind = "waitTillHTMLStable"}

\* C19: waitTillHTMLStable always completes: it returns once the readiness
\* signal or the fallback delay resolves, it never throws, and the expiry of
\* its timeout never turns the response of the enclosing action into an
\* error.
C19_StabilityWaitCompletes ==
  /\ []((bpc = "done" /\ StabilityWaits # {}) => bresult[1].status = "success")
  /\ [][(bpc = "stability_wait" /\ bpc' # bpc) => (bpc' = "url_check" /\ bresult' = bresult)]_vars
  /\ (bpc = "stability_wait") ~> (bpc = "url_check")

C19_Witness ==
  /\ bpc = "done"
  /\ bcall[1].op = "click"
  /\ \E i \in StabilityWaits : events[i].outcome = "rejected"
  /\ bresult[1].status = "success"

EventsOf(kind) == {i \in 1..Len(events) : events[i].kind = kind}
Emitted(name) == {i \in 1..Len(events) : events[i].kind = "emit" /\ events[i].name = name}

\* C26: in a browser click that finds an element, the navigation wait is
\* armed before the pointer click is dispatched, and the stability wait runs
\* if and only if the navigation wait ended without a navigation; when a
\* navigation was detected the stability wait is skipped.
C26_StabilityWaitIffNoNavigation ==
  (bcall # None /\ bcall[1].op = "click") =>
    /\ \A i \in EventsOf("mouse.click") : \E j \in EventsOf("waitForNavigation") : j < i
    /\ (bpc \in {"url_check", "done"} /\ EventsOf("mouse.click") # {}
          /\ (bpc = "done" => bresult[1].status = "success")) =>
         /\ bcall[1].hasNavigation => StabilityWaits = {}
         /\ ~bcall[1].hasNavigation => Cardinality(StabilityWaits) = 1
    /\ \A i \in StabilityWaits : \A j \in EventsOf("mouse.click") : j < i

C26_Witness ==
  /\ bpc = "done"
  /\ bcall[1].op = "click"
  /\ bcall[1].hasNavigation
  /\ bresult = Some(BrowserSuccess("Click performed with navigation"))
  /\ events[1] = Page("waitForNavigation")
  /\ EventsOf("mouse.click") # {}
  /\ StabilityWaits = {}

\* C27: a browser click broadcasts input-focused, carrying the clicked
\* coordinate, exactly when the struck element is an input, a textarea or
\* contenteditable, and every click that returns status success has
\* broadcast action_performed exactly once; a click that returns status
\* error has broadcast neither.
C27_ClickBroadcasts ==
  (bpc = "done" /\ bcall[1].op = "click") =>
    /\ bresult[1].status = "success" =>
         /\ Cardinality(Emitted("action_performed")) = 1
         /\ Cardinality(EventsOf("mouse.click")) = 1
         /\ bcall[1].elementInfo[1].isInput =>
              /\ Cardinality(Emitted("input-focused")) = 1
              /\ \A i \in Emitted("input-focused") : \A j \in EventsOf("mouse.click") :
                   /\ events[i].coordinate = events[j].coordinate
                   /\ events[i].coordinate = bcall[1].coordinate[1]
                   /\ j < i
         /\ ~bcall[1].elementInfo[1].isInput => Emitted("input-focused") = {}
    /\ bresult[1].status = "error" =>
         /\ Emitted("action_performed") = {}
         /\ Emitted("input-focused") = {}

C27_Witness ==
  /\ bpc = "done"
  /\ bcall[1].op = "click"
  /\ bcall[1].elementInfo # None
  /\ bcall[1].elementInfo[1].isInput
  /\ bresult[1].status = "success"
  /\ \E i \in Emitted("input-focused") : events[i].coordinate = <<"1", ",", "2">>
  /\ Cardinality(Emitted("action_performed")) = 1

NextHover ==
  \/ HoverWithoutCoordinate
  \/ Hover
  \/ HoverEvaluate
  \/ HoverMouse
  \/ HoverReturns
  \/ captureScreenshot
  \/ BrowserReturn

\* hover calls, one after the other, with screenshots in between
SpecHover == InitBrowser /\ [][NextHover]_vars

\* C28: a browser hover at a coordinate with no element underneath returns
\* status error without moving the pointer, without broadcasting
\* action_performed, and without changing the remembered hover position; the
\* position is remembered only for a hover that found an element.
C28_NoElementHoverLeavesPosition ==
  (bpc = "done" /\ bcall[1].op = "hover" /\ bcall[1].elementExists = Some(FALSE)) =>
    /\ bresult[1].status = "error"
    /\ EventsOf("mouse.move") = {}
    /\ Emitted("action_performed") = {}
    /\ lastHoverPosition = bcall[1].remembered

\* the loading-state-update and page-ready broadcasts of the step
PollBroadcasts(name) ==
  {i \in (Len(events) + 1)..Len(events') :
     events'[i].kind = "emit" /\ events'[i].from = "poll" /\ events'[i].name = name}

\* C29: once a loading poll is armed, every poll tick broadcasts one
\* loading-state-update, and the poll ends with exactly one page-ready
\* broadcast: at the first tick that observes no loading indicator or fails,
\* the timer is cancelled, page-ready is broadcast once, and no later tick of
\* that poll broadcasts anything.  The poll looked at is the one armed last
\* (its timer is `timers`), which no later detectLoading has replaced: its
\* timer is cleared by the tick that ends it and by nothing else.
C29_PollEndsWithOnePageReady ==
  [][\A t \in BagToSet(ticks) :
       (t = timers /\ ticks' = ticks (-) SetToBag({t})) =>
         /\ t \in armed
         /\ Cardinality(PollBroadcasts("loading-state-update")) = 1
         /\ Cardinality(PollBroadcasts("page-ready")) <= 1
         /\ PollBroadcasts("page-ready") # {} <=> t \notin armed']_vars

\* C33: a poll tick that belongs to a loading-poll timer which has since
\* been cancelled and replaced by a newer startLoadingMonitor call never
\* cancels the newer timer and never broadcasts page-ready for it, even when
\* that tick was already awaiting its page evaluation at the moment of
\* replacement.
C33_StaleTickSparesNewerPoll ==
  [][\A t \in BagToSet(ticks) :
       (ticks' = ticks (-) SetToBag({t}) /\ t < timers /\ timers \in armed) =>
         /\ armed' = armed
         /\ loadingMonitorInterval' = loadingMonitorInterval
         /\ PollBroadcasts("page-ready") = {}]_vars

\* What the code does keep: at most one timer is armed, and it is the one the
\* field holds
OnePollTimer ==
  /\ Cardinality(armed) <= 1
  /\ armed = IF loadingMonitorInterval = None THEN {} ELSE {loadingMonitorInterval[1]}

----------------------------------------------------------------------------
(* PuppeteerActions.ts: type and submitForm *)

\* lines 140-145: no text in the action
TypeWithoutText ==
  /\ bpc = "idle"
  /\ \E c \in {None, Some(<<"1", ",", "2">>)} :
       bcall' = Some([op |-> "type", text |-> None, coordinate |-> c, elementInfo |-> None])
  /\ events' = <<>>
  /\ bresult' = Some(BrowserError("Text is required for type action"))
  /\ bpc' = "done"
  /\ UNCHANGED monitorVars
  /\ UNCHANGED BrowserOthers

\* lines 147-150: the text is there; the focus check is for a call with a
\* coordinate only
Type ==
  /\ bpc = "idle"
  /\ \E c \in {None, Some(<<"1", ",", "2">>), Some(<<"4", "5", "0", ",", "3", "0", "0">>)} :
       /\ bcall' = Some([op |-> "type", text |-> Some(<<"a">>), coordinate |-> c,
                         elementInfo |-> None])
       /\ bpc' = IF c # None THEN "type_evaluate" ELSE "keyboard"
  /\ events' = <<>>
  /\ bresult' = None
  /\ UNCHANGED monitorVars
  /\ UNCHANGED BrowserOthers

\* the catch of lines 188-194
TypeFails ==
  /\ bresult' = Some(BrowserError("Failed to type text"))
  /\ bpc' = "done"

\* A plausible slip: every element taken as focusable
IsFocusable_always(el) == TRUE

\* lines 154-169: false with no element under the point; true (after
\* el.focus()) for an input, a textarea or a contenteditable element
IsFocusable(el) == el.found /\ el.isInput

\* lines 153-170: page.evaluate tells whether the element is focusable
TypeEvaluate ==
  /\ bpc = "type_evaluate"
  /\ events' = Append(events, Page("evaluate elementFromPoint"))
  /\ \/ \E el \in ElementInfos :
          /\ bcall' = Some([bcall[1] EXCEPT !.elementInfo = Some(el)])
          /\ bpc' = IF IsFocusable(el) THEN "keyboard" ELSE "type_click"
          /\ UNCHANGED bresult
     \/ TypeFails /\ UNCHANGED bcall
  /\ UNCHANGED monitorVars
  /\ UNCHANGED BrowserOthers

\* lines 172-176: page.mouse.click(x, y), then page.waitForTimeout(100)
TypeClick ==
  /\ bpc = "type_click"
  /\ \/ /\ events' = events \o <<MouseClick(bcall[1].coordinate[1]), Page("waitForTimeout")>>
        /\ bpc' = "keyboard"
        /\ UNCHANGED bresult
     \/ /\ events' = Append(events, MouseClick(bcall[1].coordinate[1]))
        /\ TypeFails
  /\ UNCHANGED bcall
  /\ UNCHANGED monitorVars
  /\ UNCHANGED BrowserOthers

KeyboardType(txt) == [kind |-> "keyboard.type", text |-> txt]

\* lines 180-187: page.keyboard.type(text), action_performed, the response
TypeKeys ==
  /\ bpc = "keyboard"
  /\ \/ /\ events' = events \o <<KeyboardType(bcall[1].text[1]),
                                  Emit("action_performed", "type")>>
        /\ bresult' = Some(BrowserSuccess("Type action performed successfully"))
        /\ bpc' = "done"
     \/ /\ events' = Append(events, KeyboardType(bcall[1].text[1]))
        /\ TypeFails
  /\ UNCHANGED bcall
  /\ UNCHANGED monitorVars
  /\ UNCHANGED BrowserOthers

\* lines 725-777: page.evaluate submits the first matching form and returns
\* the number of matching forms; with none the error is returned, and an
\* exception goes to the catch of lines 813-823, which sends
\* action_performed; otherwise waitForNavigation is called
SubmitForm ==
  /\ bpc = "idle"
  /\ bcall' = Some([op |-> "submitForm", race |-> None])
  /\ \/ \E formCount \in 0..1 :
          IF formCount = 0
            THEN /\ events' = <<Page("evaluate submit")>>
                 /\ bresult' = Some(BrowserError("No form found with selector"))
                 /\ bpc' = "done"
            ELSE /\ events' = <<Page("evaluate submit"), Page("waitForNavigation")>>
                 /\ bresult' = None
                 /\ bpc' = "submit_race"
     \/ /\ events' = <<Page("evaluate submit"), Emit("action_performed", "submitForm")>>
        /\ bresult' = Some(BrowserError("Form submission failed"))
        /\ bpc' = "done"
  /\ UNCHANGED monitorVars
  /\ UNCHANGED BrowserOthers

Response == [kind |-> "response"]

\* what settles first in the race of lines 779-782
RaceOutcomes ==
  {"navigation with response", "navigation without response", "navigation wait rejected",
   "fallback delay"}

\* lines 773-782: waitForNavigation resolves to the response, or to null for
\* a navigation without one; its rejection is caught to null; the promise of
\* setTimeout(resolve, 1000) resolves to undefined
RaceResult(outcome) ==
  CASE outcome = "navigation with response" -> Response
    [] outcome = "navigation without response" -> Null
    [] outcome = "navigation wait rejected" -> Null
    [] outcome = "fallback delay" -> Undefined

\* line 785: if (result !== null)
NavigationOccurred(result) == result # Null

\* lines 779-788: the race settles; url-change is sent when its result is
\* not null
SubmitRace ==
  /\ bpc = "submit_race"
  /\ \E outcome \in RaceOutcomes :
       /\ bcall' = Some([bcall[1] EXCEPT !.race = Some(outcome)])
       /\ events' = IF NavigationOccurred(RaceResult(outcome))
                      THEN Append(events, Emit("url-change", "submitForm"))
                      ELSE events
  /\ bpc' = "submit_detect"
  /\ UNCHANGED bresult
  /\ UNCHANGED monitorVars
  /\ UNCHANGED BrowserOthers

\* lines 791-812, with detectLoading's lines 552-564: loading is detected
\* and a poll is started; action_performed and the response follow
SubmitDetectFound ==
  /\ bpc = "submit_detect"
  /\ timers < MaxTimers
  /\ timers' = timers + 1
  /\ armed' = ClearedMonitor(armed, loadingMonitorInterval) \cup {timers + 1}
  /\ loadingMonitorInterval' = Some(timers + 1)
  /\ isMonitoringLoading' = TRUE
  /\ events' = events \o <<Page("evaluate loading indicators"),
                           Emit("loading-state-update", "detectLoading"),
                           Emit("action_performed", "submitForm")>>
  /\ bresult' = Some(BrowserSuccess("Form submitted successfully"))
  /\ bpc' = "done"
  /\ UNCHANGED <<ticks, bcall>>
  /\ UNCHANGED BrowserOthers

\* lines 791-812, with detectLoading's lines 565-592: no loading indicator,
\* or the evaluation failed inside detectLoading, which catches it: page-ready
\* is sent (afterAction is true); action_performed and the response follow
SubmitDetectNone ==
  /\ bpc = "submit_detect"
  /\ events' = events \o <<Page("evaluate loading indicators"),
                           Emit("loading-state-update", "detectLoading"),
                           Emit("page-ready", "detectLoading"),
                           Emit("action_performed", "submitForm")>>
  /\ bresult' = Some(BrowserSuccess("Form submitted successfully"))
  /\ bpc' = "done"
  /\ UNCHANGED bcall
  /\ UNCHANGED monitorVars
  /\ UNCHANGED BrowserOthers

NextInput ==
  \/ TypeWithoutText
  \/ Type
  \/ TypeEvaluate
  \/ TypeClick
  \/ TypeKeys
  \/ SubmitForm
  \/ SubmitRace
  \/ SubmitDetectFound
  \/ SubmitDetectNone
  \/ BrowserReturn

\* type and submitForm calls, one after the other
SpecInput == InitBrowser /\ [][NextInput]_vars

\* C38: submitForm broadcasts url-change only when its navigation wait
\* observed a navigation inside the race window; when the 1000 ms fallback
\* delay wins the race and no navigation occurred, no url-change is
\* broadcast.
C38_UrlChangeOnlyAfterNavigation ==
  (bcall # None /\ bcall[1].op = "submitForm") =>
    /\ Emitted("url-change") # {} =>
         /\ bcall[1].race # None
         /\ bcall[1].race[1] \in {"navigation with response", "navigation without response"}
    /\ bcall[1].race = Some("fallback delay") => Emitted("url-change") = {}

\* C39: browser type issues a pointer click before typing exactly when a
\* coordinate is supplied and the element under it is not natively focusable
\* (not an input, textarea or contenteditable; a point with no element under
\* it counts as not focusable); with no coordinate, or with a focusable
\* element under the coordinate, the text is typed with no pointer click.
C39_ClickBeforeTypingIffNotFocusable ==
  (bcall # None /\ bcall[1].op = "type" /\ bcall[1].text # None
     /\ (bpc = "done" \/ EventsOf("keyboard.type") # {})) =>
    /\ EventsOf("mouse.click") # {} <=>
         /\ bcall[1].coordinate # None
         /\ bcall[1].elementInfo # None
         /\ ~(bcall[1].elementInfo[1].found /\ bcall[1].elementInfo[1].isInput)
    /\ Cardinality(EventsOf("mouse.click")) <= 1
    /\ \A i \in EventsOf("mouse.click") :
         /\ events[i].coordinate = bcall[1].coordinate[1]
         /\ \A j \in EventsOf("keyboard.type") : i < j
    /\ (bresult # None /\ bresult[1].status = "success") =>
         Cardinality(EventsOf("keyboard.type")) = 1

C39_Witness ==
  /\ bpc = "done"
  /\ bcall[1].op = "type"
  /\ bcall[1].coordinate = Some(<<"1", ",", "2">>)
  /\ bcall[1].elementInfo # None
  /\ bcall[1].elementInfo[1].found
  /\ ~bcall[1].elementInfo[1].isInput
  /\ bresult[1].status = "success"
  /\ events = <<Page("evaluate elementFromPoint"), MouseClick(<<"1", ",", "2">>),
                Page("waitForTimeout"), KeyboardType(<<"a">>),
                Emit("action_performed", "type")>>

====
